---- MODULE Spec2Model ----
(***************************************************************************)
(* Model of the trap/unwind mechanism and of error object construction of  *)
(* the Ren-C core (src/core/c-error.c).                                    *)
(*                                                                         *)
(* SpecTrap : Push_Trap_Helper, Fail_Core, Trap_Stack_Overflow,            *)
(*            Trapped_Helper_Halted and the thrown-argument slot, driven   *)
(*            by the stack / series operations of the evaluator.           *)
(* SpecErr  : Find_Error_For_Code, Make_Error_Core and                     *)
(*            Make_Error_Object_Throws over a loaded error catalog.        *)
(***************************************************************************)
EXTENDS Integers, Sequences, FiniteSets, TLC

(***************************************************************************)
(* Bounds of the model.                                                    *)
(***************************************************************************)
MaxTraps == 2
MaxCalls == 2
MaxDSP == 1
MaxManuals == 2
MaxGuards == 1
MaxGCDisable == 1
MaxOps == 3

(***************************************************************************)
(* Values of the trap model.                                               *)
(***************************************************************************)
NULL == 0
StateIds == 1 .. MaxTraps
SeriesIds == 1 .. MaxManuals

\* Error frames that can be handed to fail; TASK_STACK_ERROR is preallocated.
TASK_STACK_ERROR == "FRM_STACK_OVERFLOW"
ErrorFrames == {"FRM_HALT", "FRM_MISC", TASK_STACK_ERROR}
NoFrame == "NULL"

RE_HALT == "RE_HALT"
ERR_NUM(frame) ==
    CASE frame = "FRM_HALT" -> RE_HALT
      [] frame = "FRM_MISC" -> "RE_MISC"
      [] frame = TASK_STACK_ERROR -> "RE_STACK_OVERFLOW"
      [] OTHER -> "RE_NONE"

TRASH == "trash"
ThrowArgs == {"val_a", "val_b"}
NameCells == {1, 2}

VARIABLES
    ndebug,           \* TRUE for a release build (NDEBUG), FALSE for a debug build
    pc,               \* "running" | "jumped" | "recovered" | "panicked" | "abort"
    Saved_State,      \* innermost REBOL_STATE, NULL if none
    st,               \* the REBOL_STATE structures (memory of the C stack)
    CS_Top,           \* depth of the topmost allocated call frame, NULL if none
    DSF,              \* depth of the running call frame, NULL if none
    DSP,              \* data stack pointer, -1 when empty
    GC_Manuals,       \* the manually managed series, in list order
    GC_Series_Guard,  \* tail of the guarded series stack
    GC_Value_Guard,   \* tail of the guarded value stack
    GC_Disabled,
    TASK_THROWN_ARG,
    thrown,           \* OPT_VALUE_THROWN bit of each name cell
    out,              \* the cell Catch_Thrown last wrote
    target,           \* the state whose recovery point the long jump reached
    failed,           \* the frame handed to the fail/panic in progress
    halted,           \* last result of Trapped_Helper_Halted
    lastOp,           \* routine that performed the last transfer of control
    scopes,           \* history: what was current when each active scope was pushed
    handled,          \* history entry of the scope whose recovery code is running
    atJump,           \* history: the globals as the long jump found them
    ops               \* number of evaluator operations performed so far

VARIABLES
    catalog,          \* the error catalog loaded at boot (categories in code order)
    endSym,           \* the symbol bits that lie in the END cell of a keylist
    eop,              \* the error routine that was called last ("idle" if none)
    ein,              \* its arguments
    eout              \* what it returned or how it ended

errVars == <<catalog, endSym, eop, ein, eout>>

VARIABLES
    fop,              \* the function routine that was called last ("idle" if none)
    fin,              \* its arguments
    fout              \* what it returned or how it ended

funcVars == <<fop, fin, fout>>

VARIABLES
    object,           \* an object's frame: its keys with their flags, its values
    oop,              \* the object routine that was called last ("idle" if none)
    oin,              \* its arguments
    oout              \* how it ended

objVars == <<object, oop, oin, oout>>

VARIABLES
    calls,            \* the active invocations, outermost first
    archetype,        \* the function values that are invoked
    arrays,           \* what the words of each body array are bound to
    allocs,           \* number of arrays allocated so far
    ilast             \* the invocation step performed last

invVars == <<calls, archetype, arrays, allocs, ilast>>

VARIABLES
    gparent,          \* GOB_PARENT of each gob
    gpane,            \* GOB_PANE of each gob
    gop               \* the gob operation performed last and how it ended

gobVars == <<gparent, gpane, gop>>

trapVars == <<ndebug, pc, Saved_State, st, CS_Top, DSF, DSP, GC_Manuals,
              GC_Series_Guard, GC_Value_Guard, GC_Disabled, TASK_THROWN_ARG,
              thrown, out, target, failed, halted, lastOp, scopes, handled, atJump, ops>>

vars == <<trapVars, errVars, funcVars, objVars, invVars, gobVars>>

(***************************************************************************)
(* Values (REBVAL cells) of the error model.                               *)
(***************************************************************************)
RE_USER == 1000
MaxArgs == 2
MaxCat == 3
MaxOff == 3

NONE_VALUE == [kind |-> "none"]
END_VALUE == [kind |-> "end"]
Unwritten == [kind |-> "unwritten"]
MkInteger(n) == [kind |-> "integer", n |-> n]
Str(s) == [kind |-> "string", s |-> s]
Blk(items) == [kind |-> "block", items |-> items]
GetWord(sym) == [kind |-> "get-word", sym |-> sym]
\* A word: its canon symbol, and whether it is spelled/bound differently
\* from the catalog's word
WordAs(sym, alias) == [kind |-> "word", sym |-> sym, alias |-> alias]
Word(sym) == WordAs(sym, FALSE)

IS_NONE(v) == v.kind = "none"
IS_INTEGER(v) == v.kind = "integer"
IS_WORD(v) == v.kind = "word"
IS_STRING(v) == v.kind = "string"
IS_BLOCK(v) == v.kind = "block"
IS_GET_WORD(v) == v.kind = "get-word"
SAME_SYM(a, b) == a = b

\* cast(REBCNT, n): an unsigned count that wraps around.  The C type has 32
\* bits; the checker's integers are 32 bit signed, so the model wraps at
\* 2^30, which keeps every wrapped value far above all catalog codes.
REBCNT(n) == n % (2 ^ 30)

(***************************************************************************)
(* The catalog: one object per category, keys SELF CODE TYPE id1 id2 ...   *)
(***************************************************************************)
Category(sym, code, ids, msgs) ==
    [sym |-> sym, code |-> code, type |-> Str(sym), ids |-> ids, msgs |-> msgs]

CatSpecial ==
    Category("special", 0, <<"null", "halt">>,
             <<Str("invalid error code zero"), Str("halted by user or script")>>)

CatScript ==
    Category("script", 100, <<"no-value", "not-related">>,
             <<Blk(<<GetWord("arg1"), Str("has no value")>>),
               Blk(<<Str("incompatible argument"), GetWord("arg1"),
                     Str("for"), GetWord("arg2")>>)>>)

CatMath ==
    Category("math", 200, <<"zero-divide">>,
             <<Blk(<<Str("attempt to divide by zero")>>)>>)

\* Categories keyed by the word the root error template uses as its type
CatUser ==
    Category("user", 200, <<"message">>, <<Blk(<<GetWord("arg1")>>)>>)

CatUserOther ==
    Category("user", 200, <<"custom">>, <<Str("custom error")>>)

Catalogs ==
    {<<CatSpecial, CatScript>>,
     <<CatSpecial, CatScript, CatMath>>,
     <<CatSpecial, CatScript, CatUser>>,
     <<CatSpecial, CatScript, CatUserOther>>}

Symbols ==
    {"special", "script", "math", "user", "null", "halt", "no-value",
     "not-related", "zero-divide", "message", "custom"}

\* ROOT_ERROBJ: the error template; code and message default to none
RootKeys == <<"self", "code", "type", "id", "message", "near", "where">>
RootVals ==
    <<[kind |-> "self"], NONE_VALUE, Word("user"), Word("message"), NONE_VALUE,
      NONE_VALUE, NONE_VALUE>>

\* The error model at rest, as the trap model leaves it
ErrIdle ==
    /\ catalog = <<CatSpecial, CatScript>>
    /\ endSym = "halt"
    /\ eop = "idle"
    /\ ein = [code |-> 0]
    /\ eout = [outcome |-> "none"]

\* Memory of a REBOL_STATE that no Push_Trap_Helper has written
Uninit ==
    [dsp |-> -1, dsf |-> NULL, series_guard_tail |-> 0, value_guard_tail |-> 0,
     gc_disable |-> 0, manuals_tail |-> 0, last_state |-> NULL,
     error_frame |-> NoFrame]

SERIES_TAIL(series) == Len(series)

\* The state the history says is innermost (NULL if no scope is active)
Innermost == IF scopes = <<>> THEN NULL ELSE scopes[Len(scopes)].s

\* History entry standing for "no scope"
NoScope ==
    [s |-> NULL, before |-> NULL, dsp |-> -1, dsf |-> NULL, manuals |-> <<>>,
     series_guards |-> 0, value_guards |-> 0, gc |-> 0]

\* The globals a trap snapshots, as they are now
Globals ==
    [top |-> CS_Top, dsf |-> DSF, dsp |-> DSP, manuals |-> GC_Manuals,
     series_guards |-> GC_Series_Guard, value_guards |-> GC_Value_Guard,
     gc |-> GC_Disabled]

NoGlobals ==
    [top |-> NULL, dsf |-> NULL, dsp |-> -1, manuals |-> <<>>,
     series_guards |-> 0, value_guards |-> 0, gc |-> 0]

\* What the history recorded for the innermost scope
Floor == IF scopes = <<>> THEN NoScope ELSE scopes[Len(scopes)]

TrapIdle ==
    /\ ndebug \in BOOLEAN
    /\ pc = "running"
    /\ Saved_State = NULL
    /\ st = [s \in StateIds |-> Uninit]
    /\ CS_Top = NULL
    /\ DSF = NULL
    /\ DSP = -1
    /\ GC_Manuals = <<>>
    /\ GC_Series_Guard = 0
    /\ GC_Value_Guard = 0
    /\ GC_Disabled = 0
    /\ TASK_THROWN_ARG = TRASH
    /\ thrown = [n \in NameCells |-> FALSE]
    /\ target = NULL
    /\ failed = NoFrame
    /\ halted = FALSE
    /\ lastOp = "none"
    /\ scopes = <<>>
    /\ handled = NoScope
    /\ out = TRASH
    /\ atJump = NoGlobals
    /\ ops = 0

\* The function model at rest
FuncIdle ==
    /\ fop = "idle"
    /\ fin = [spec |-> <<>>]
    /\ fout = [outcome |-> "none"]

\* The object model at rest
ObjIdle ==
    /\ object = [keys |-> <<>>, vals |-> <<>>]
    /\ oop = "idle"
    /\ oin = [select |-> "none"]
    /\ oout = [outcome |-> "none"]

\* No function running
InvIdle ==
    /\ calls = <<>>
    /\ archetype = <<>>
    /\ arrays = <<>>
    /\ allocs = 0
    /\ ilast = [op |-> "none", who |-> 0]

\* No gob made
GobIdle ==
    /\ gparent = <<>>
    /\ gpane = <<>>
    /\ gop = [op |-> "none", how |-> "none", n |-> 0]

InitTrap == TrapIdle /\ ErrIdle /\ FuncIdle /\ ObjIdle /\ InvIdle /\ GobIdle

(***************************************************************************)
(* Evaluator operations that run between a trap push and a failure.  They  *)
(* keep the discipline of the trap protocol: nothing that existed when the *)
(* innermost scope was pushed is released while that scope is active.      *)
(***************************************************************************)
trapRest == <<ndebug, pc, Saved_State, st, target, failed, halted, lastOp,
              scopes, handled, atJump>>

\* One more evaluator operation, within the bound of the model
Step == ops < MaxOps /\ ops' = ops + 1

\* A call frame is allocated on top of the chain (not yet running)
Make_Call ==
    /\ UNCHANGED <<errVars, funcVars, objVars, invVars, gobVars>>
    /\ pc = "running"
    /\ Step
    /\ CS_Top < MaxCalls
    /\ CS_Top' = CS_Top + 1
    /\ UNCHANGED <<trapRest, DSF, DSP, GC_Manuals, GC_Series_Guard,
                   GC_Value_Guard, GC_Disabled, TASK_THROWN_ARG, thrown, out>>

\* SET_DSF(CS_Top): the topmost frame starts running
Run_Call ==
    /\ UNCHANGED <<errVars, funcVars, objVars, invVars, gobVars>>
    /\ pc = "running"
    /\ Step
    /\ DSF < CS_Top
    /\ DSF' = CS_Top
    /\ UNCHANGED <<trapRest, CS_Top, DSP, GC_Manuals, GC_Series_Guard,
                   GC_Value_Guard, GC_Disabled, TASK_THROWN_ARG, thrown, out>>

\* The topmost frame is released; a running frame gives way to its prior
Drop_Call ==
    /\ UNCHANGED <<errVars, funcVars, objVars, invVars, gobVars>>
    /\ pc = "running"
    /\ Step
    /\ CS_Top > Floor.dsf
    /\ CS_Top' = CS_Top - 1
    /\ DSF' = IF DSF = CS_Top THEN CS_Top - 1 ELSE DSF
    /\ UNCHANGED <<trapRest, DSP, GC_Manuals, GC_Series_Guard,
                   GC_Value_Guard, GC_Disabled, TASK_THROWN_ARG, thrown, out>>

DS_PUSH ==
    /\ UNCHANGED <<errVars, funcVars, objVars, invVars, gobVars>>
    /\ pc = "running"
    /\ Step
    /\ DSP < MaxDSP
    /\ DSP' = DSP + 1
    /\ UNCHANGED <<trapRest, CS_Top, DSF, GC_Manuals, GC_Series_Guard,
                   GC_Value_Guard, GC_Disabled, TASK_THROWN_ARG, thrown, out>>

DS_DROP ==
    /\ UNCHANGED <<errVars, funcVars, objVars, invVars, gobVars>>
    /\ pc = "running"
    /\ Step
    /\ DSP > Floor.dsp
    /\ DSP' = DSP - 1
    /\ UNCHANGED <<trapRest, CS_Top, DSF, GC_Manuals, GC_Series_Guard,
                   GC_Value_Guard, GC_Disabled, TASK_THROWN_ARG, thrown, out>>

Range(seq) == {seq[i] : i \in 1 .. Len(seq)}

\* Removal of one series from the manuals list: the last entry takes its place
Untrack(manuals, series) ==
    LET n == Len(manuals)
        i == CHOOSE k \in 1 .. n : manuals[k] = series
    IN  SubSeq([manuals EXCEPT ![i] = manuals[n]], 1, n - 1)

\* A series is allocated unmanaged: it is appended to the manuals list
Make_Series ==
    /\ UNCHANGED <<errVars, funcVars, objVars, invVars, gobVars>>
    /\ pc = "running"
    /\ Step
    /\ \E series \in SeriesIds \ Range(GC_Manuals) :
           GC_Manuals' = Append(GC_Manuals, series)
    /\ UNCHANGED <<trapRest, CS_Top, DSF, DSP, GC_Series_Guard,
                   GC_Value_Guard, GC_Disabled, TASK_THROWN_ARG, thrown, out>>

\* A manual series made in the innermost scope is freed (or handed to the GC)
Free_Series ==
    /\ UNCHANGED <<errVars, funcVars, objVars, invVars, gobVars>>
    /\ pc = "running"
    /\ Step
    /\ \E series \in Range(GC_Manuals) \ Range(Floor.manuals) :
           GC_Manuals' = Untrack(GC_Manuals, series)
    /\ UNCHANGED <<trapRest, CS_Top, DSF, DSP, GC_Series_Guard,
                   GC_Value_Guard, GC_Disabled, TASK_THROWN_ARG, thrown, out>>

PUSH_GUARD_SERIES ==
    /\ UNCHANGED <<errVars, funcVars, objVars, invVars, gobVars>>
    /\ pc = "running"
    /\ Step
    /\ GC_Series_Guard < MaxGuards
    /\ GC_Series_Guard' = GC_Series_Guard + 1
    /\ UNCHANGED <<trapRest, CS_Top, DSF, DSP, GC_Manuals,
                   GC_Value_Guard, GC_Disabled, TASK_THROWN_ARG, thrown, out>>

DROP_GUARD_SERIES ==
    /\ UNCHANGED <<errVars, funcVars, objVars, invVars, gobVars>>
    /\ pc = "running"
    /\ Step
    /\ GC_Series_Guard > Floor.series_guards
    /\ GC_Series_Guard' = GC_Series_Guard - 1
    /\ UNCHANGED <<trapRest, CS_Top, DSF, DSP, GC_Manuals,
                   GC_Value_Guard, GC_Disabled, TASK_THROWN_ARG, thrown, out>>

PUSH_GUARD_VALUE ==
    /\ UNCHANGED <<errVars, funcVars, objVars, invVars, gobVars>>
    /\ pc = "running"
    /\ Step
    /\ GC_Value_Guard < MaxGuards
    /\ GC_Value_Guard' = GC_Value_Guard + 1
    /\ UNCHANGED <<trapRest, CS_Top, DSF, DSP, GC_Manuals,
                   GC_Series_Guard, GC_Disabled, TASK_THROWN_ARG, thrown, out>>

DROP_GUARD_VALUE ==
    /\ UNCHANGED <<errVars, funcVars, objVars, invVars, gobVars>>
    /\ pc = "running"
    /\ Step
    /\ GC_Value_Guard > Floor.value_guards
    /\ GC_Value_Guard' = GC_Value_Guard - 1
    /\ UNCHANGED <<trapRest, CS_Top, DSF, DSP, GC_Manuals,
                   GC_Series_Guard, GC_Disabled, TASK_THROWN_ARG, thrown, out>>

\* A critical section disables or re-enables the collector
Set_GC_Disabled ==
    /\ UNCHANGED <<errVars, funcVars, objVars, invVars, gobVars>>
    /\ pc = "running"
    /\ Step
    /\ \E g \in 0 .. MaxGCDisable :
           /\ g # GC_Disabled
           /\ GC_Disabled' = g
    /\ UNCHANGED <<trapRest, CS_Top, DSF, DSP, GC_Manuals, GC_Series_Guard,
                   GC_Value_Guard, TASK_THROWN_ARG, thrown, out>>

(***************************************************************************)
(* The thrown-argument slot.                                               *)
(***************************************************************************)
stackVars == <<CS_Top, DSF, DSP, GC_Manuals, GC_Series_Guard, GC_Value_Guard,
               GC_Disabled>>

\* A convert that asserts nothing
ConvertAssertsNothing(name) == TRUE

\* The assertions of Convert_Name_To_Thrown_Debug (arg is never trash here)
ConvertAsserts(name) == ~thrown[name] /\ TASK_THROWN_ARG = TRASH

Convert_Name_To_Thrown(name, arg) ==
    /\ UNCHANGED <<errVars, funcVars, objVars, invVars, gobVars>>
    /\ pc = "running"
    /\ Step
    /\ IF ~ndebug /\ ~ConvertAsserts(name)
       THEN /\ pc' = "abort"
            /\ lastOp' = "Convert_Name_To_Thrown"
            /\ UNCHANGED <<thrown, TASK_THROWN_ARG>>
       ELSE /\ thrown' = [thrown EXCEPT ![name] = TRUE]
            /\ TASK_THROWN_ARG' = arg
            /\ UNCHANGED <<pc, lastOp>>
    /\ UNCHANGED <<ndebug, Saved_State, st, stackVars, out, target, failed,
                   halted, scopes, handled, atJump>>

\* The assertions of Catch_Thrown_Debug
CatchAsserts(name) == thrown[name] /\ TASK_THROWN_ARG # TRASH

Catch_Thrown(name) ==
    /\ UNCHANGED <<errVars, funcVars, objVars, invVars, gobVars>>
    /\ pc = "running"
    /\ Step
    /\ IF ~ndebug /\ ~CatchAsserts(name)
       THEN /\ pc' = "abort"
            /\ lastOp' = "Catch_Thrown"
            /\ UNCHANGED <<thrown, TASK_THROWN_ARG, out>>
       ELSE /\ thrown' = [thrown EXCEPT ![name] = FALSE]
            /\ out' = TASK_THROWN_ARG
            /\ TASK_THROWN_ARG' = TRASH
            /\ UNCHANGED <<pc, lastOp>>
    /\ UNCHANGED <<ndebug, Saved_State, st, stackVars, target, failed,
                   halted, scopes, handled, atJump>>

\* Error_No_Catch_For_Throw(thrown): the payload is taken into a local for
\* the error's argument, which clears the bit and the slot; the error frame
\* is returned to the caller
Error_No_Catch_For_Throw(name) ==
    /\ UNCHANGED <<errVars, funcVars, objVars, invVars, gobVars>>
    /\ pc = "running"
    /\ Step
    /\ IF ~ndebug /\ ~CatchAsserts(name)
       THEN /\ pc' = "abort"
            /\ lastOp' = "Error_No_Catch_For_Throw"
            /\ UNCHANGED <<thrown, TASK_THROWN_ARG>>
       ELSE /\ thrown' = [thrown EXCEPT ![name] = FALSE]
            /\ TASK_THROWN_ARG' = TRASH
            /\ UNCHANGED <<pc, lastOp>>
    /\ UNCHANGED <<ndebug, Saved_State, st, stackVars, out, target, failed,
                   halted, scopes, handled, atJump>>

(***************************************************************************)
(* Push_Trap_Helper                                                        *)
(***************************************************************************)
\* assert(Saved_State || (DSP == -1 && !DSF))
PushAssert == Saved_State # NULL \/ (DSP = -1 /\ DSF = NULL)

\* The fields Push_Trap_Helper writes into *s
PushedStateNoLink ==
    [dsp |-> DSP, dsf |-> DSF, series_guard_tail |-> GC_Series_Guard,
     value_guard_tail |-> GC_Value_Guard, gc_disable |-> GC_Disabled,
     manuals_tail |-> SERIES_TAIL(GC_Manuals), last_state |-> NULL,
     error_frame |-> NoFrame]

PushedState ==
    [dsp |-> DSP, dsf |-> DSF, series_guard_tail |-> GC_Series_Guard,
     value_guard_tail |-> GC_Value_Guard, gc_disable |-> GC_Disabled,
     manuals_tail |-> SERIES_TAIL(GC_Manuals), last_state |-> Saved_State,
     error_frame |-> NoFrame]

\* History entry of a scope being pushed now
ScopeNow(s) ==
    [s |-> s, before |-> Innermost, dsp |-> DSP, dsf |-> DSF,
     manuals |-> GC_Manuals, series_guards |-> GC_Series_Guard,
     value_guards |-> GC_Value_Guard, gc |-> GC_Disabled]

ActiveStates == {scopes[i].s : i \in 1 .. Len(scopes)}

Push_Trap_Helper(s) ==
    /\ UNCHANGED <<errVars, funcVars, objVars, invVars, gobVars>>
    /\ pc = "running"
    \* the new REBOL_STATE is a local of the caller: the next free structure
    /\ s \notin ActiveStates
    /\ \A r \in StateIds \ ActiveStates : s <= r
    /\ IF ~ndebug /\ ~PushAssert
       THEN /\ pc' = "abort"
            /\ lastOp' = "Push_Trap_Helper"
            /\ UNCHANGED <<st, Saved_State, scopes>>
       ELSE /\ st' = [st EXCEPT ![s] = PushedState]
            /\ Saved_State' = s
            /\ scopes' = Append(scopes, ScopeNow(s))
            /\ lastOp' = "Push_Trap_Helper"
            /\ UNCHANGED pc
    /\ UNCHANGED ops
    /\ UNCHANGED <<ndebug, stackVars, TASK_THROWN_ARG, thrown, out, target,
                   failed, halted, handled, atJump>>

\* DROP_TRAP_SAME_STACKLEVEL_AS_PUSH(s): the scope ends without a failure
Drop_Trap ==
    /\ UNCHANGED <<errVars, funcVars, objVars, invVars, gobVars>>
    /\ pc = "running"
    /\ Saved_State # NULL
    /\ DSP = st[Saved_State].dsp
    /\ DSF = st[Saved_State].dsf
    /\ Saved_State' = st[Saved_State].last_state
    /\ st' = [st EXCEPT ![Saved_State] = Uninit]
    /\ scopes' = SubSeq(scopes, 1, Len(scopes) - 1)
    /\ lastOp' = "Drop_Trap"
    /\ UNCHANGED ops
    /\ UNCHANGED <<ndebug, pc, stackVars, TASK_THROWN_ARG, thrown, out,
                   target, failed, halted, handled, atJump>>

(***************************************************************************)
(* Fail_Core and Trap_Stack_Overflow                                       *)
(***************************************************************************)
\* Saved_State->error_frame = frame
RecordError(frame) == [st EXCEPT ![Saved_State].error_frame = frame]

\* SET_TRASH_SAFE(TASK_THROWN_ARG)
KeepThrownArg == TASK_THROWN_ARG

ClearedThrownArg == TRASH

\* The jump taken although there is no saved state
PanicJumps(frame, op) ==
    /\ pc' = "jumped"
    /\ failed' = frame
    /\ lastOp' = op
    /\ target' = Saved_State
    /\ UNCHANGED <<st, TASK_THROWN_ARG>>

\* panic (frame): the process ends, nothing is resumed
Panic(frame, op) ==
    /\ pc' = "panicked"
    /\ failed' = frame
    /\ lastOp' = op
    /\ UNCHANGED <<st, TASK_THROWN_ARG, target>>

Fail_Core(frame) ==
    /\ UNCHANGED <<errVars, funcVars, objVars, invVars, gobVars>>
    /\ pc = "running"
    /\ IF Saved_State = NULL
       THEN Panic(frame, "Fail_Core")
       ELSE /\ st' = RecordError(frame)
            /\ TASK_THROWN_ARG' = ClearedThrownArg
            \* LONG_JUMP(Saved_State->cpu_state, 1)
            /\ target' = Saved_State
            /\ pc' = "jumped"
            /\ failed' = frame
            /\ lastOp' = "Fail_Core"
    /\ UNCHANGED ops
    /\ UNCHANGED <<ndebug, Saved_State, stackVars, thrown, out, halted,
                   scopes, handled, atJump>>

Trap_Stack_Overflow ==
    /\ UNCHANGED <<errVars, funcVars, objVars, invVars, gobVars>>
    /\ pc = "running"
    /\ IF Saved_State = NULL
       THEN Panic(TASK_STACK_ERROR, "Trap_Stack_Overflow")
       ELSE /\ st' = RecordError(TASK_STACK_ERROR)
            /\ target' = Saved_State
            /\ pc' = "jumped"
            /\ failed' = TASK_STACK_ERROR
            /\ lastOp' = "Trap_Stack_Overflow"
            /\ UNCHANGED TASK_THROWN_ARG
    /\ UNCHANGED ops
    /\ UNCHANGED <<ndebug, Saved_State, stackVars, thrown, out, halted,
                   scopes, handled, atJump>>

(***************************************************************************)
(* Trapped_Helper_Halted                                                   *)
(***************************************************************************)
\* halted = (ERR_NUM(state->error_frame) == RE_HALT)
IsHalt(state) == ERR_NUM(st[state].error_frame) = RE_HALT

\* while (call != state->dsf) { prior = call->prior; Free_Call(call); ... }
\* Free_Call moves CS_Top to the prior frame.  (A walk that reached NULL
\* without meeting state->dsf would dereference NULL; the discipline of the
\* evaluator operations keeps state->dsf in the chain.)
RECURSIVE FreeCallsTo(_, _)
FreeCallsTo(call, dsf) ==
    IF call = dsf \/ call = NULL THEN call ELSE FreeCallsTo(call - 1, dsf)

\* while (GC_Manuals->tail != state->manuals_tail) Free_Series(last entry)
RECURSIVE FreeManualsTo(_, _)
FreeManualsTo(manuals, tail) ==
    IF SERIES_TAIL(manuals) = tail \/ manuals = <<>>
    THEN manuals
    ELSE FreeManualsTo(SubSeq(manuals, 1, Len(manuals) - 1), tail)

\* The rollback with one of its steps left out
UnwoundKeepsManuals(state) ==
    [top |-> FreeCallsTo(CS_Top, st[state].dsf),
     dsf |-> st[state].dsf,
     dsp |-> st[state].dsp,
     manuals |-> GC_Manuals,
     series_guard |-> st[state].series_guard_tail,
     value_guard |-> st[state].value_guard_tail,
     gc_disabled |-> st[state].gc_disable,
     saved |-> st[state].last_state]

UnwoundHaltKeepsGC(state) ==
    [top |-> FreeCallsTo(CS_Top, st[state].dsf),
     dsf |-> st[state].dsf,
     dsp |-> st[state].dsp,
     manuals |-> FreeManualsTo(GC_Manuals, st[state].manuals_tail),
     series_guard |-> st[state].series_guard_tail,
     value_guard |-> st[state].value_guard_tail,
     gc_disabled |-> IF ERR_NUM(st[state].error_frame) = RE_HALT
                     THEN GC_Disabled ELSE st[state].gc_disable,
     saved |-> st[state].last_state]

\* What Trapped_Helper_Halted leaves in the globals
Unwound(state) ==
    [top |-> FreeCallsTo(CS_Top, st[state].dsf),
     dsf |-> st[state].dsf,
     dsp |-> st[state].dsp,
     manuals |-> FreeManualsTo(GC_Manuals, st[state].manuals_tail),
     series_guard |-> st[state].series_guard_tail,
     value_guard |-> st[state].value_guard_tail,
     gc_disabled |-> st[state].gc_disable,
     saved |-> st[state].last_state]

\* History: the entry of scope `state`, and the scopes outside it
ScopeIndex(state) == CHOOSE i \in 1 .. Len(scopes) : scopes[i].s = state

Trapped_Helper_Halted(state) ==
    /\ UNCHANGED <<errVars, funcVars, objVars, invVars, gobVars>>
    /\ pc = "jumped"
    /\ state = target
    /\ halted' = IsHalt(state)
    /\ LET u == Unwound(state)
       IN  /\ CS_Top' = u.top
           /\ DSF' = u.dsf
           /\ DSP' = u.dsp
           /\ GC_Manuals' = u.manuals
           /\ GC_Series_Guard' = u.series_guard
           /\ GC_Value_Guard' = u.value_guard
           /\ GC_Disabled' = u.gc_disabled
           /\ Saved_State' = u.saved
    /\ handled' = scopes[ScopeIndex(state)]
    /\ atJump' = Globals
    /\ scopes' = SubSeq(scopes, 1, ScopeIndex(state) - 1)
    /\ pc' = "recovered"
    /\ lastOp' = "Trapped_Helper_Halted"
    /\ UNCHANGED ops
    /\ UNCHANGED <<ndebug, st, TASK_THROWN_ARG, thrown, out, target, failed>>

\* The recovery code took the error out of the state, which leaves scope
Resume ==
    /\ UNCHANGED <<errVars, funcVars, objVars, invVars, gobVars>>
    /\ pc = "recovered"
    /\ pc' = "running"
    /\ st' = [st EXCEPT ![target] = Uninit]
    /\ target' = NULL
    /\ failed' = NoFrame
    /\ halted' = FALSE
    /\ handled' = NoScope
    /\ atJump' = NoGlobals
    /\ lastOp' = "Resume"
    /\ UNCHANGED ops
    /\ UNCHANGED <<ndebug, Saved_State, stackVars, TASK_THROWN_ARG, thrown,
                   out, scopes>>

NextTrap ==
    \/ Make_Call
    \/ Run_Call
    \/ Drop_Call
    \/ DS_PUSH
    \/ DS_DROP
    \/ Make_Series
    \/ Free_Series
    \/ PUSH_GUARD_SERIES
    \/ DROP_GUARD_SERIES
    \/ PUSH_GUARD_VALUE
    \/ DROP_GUARD_VALUE
    \/ Set_GC_Disabled
    \/ \E name \in NameCells, arg \in ThrowArgs : Convert_Name_To_Thrown(name, arg)
    \/ \E name \in NameCells : Catch_Thrown(name)
    \/ \E name \in NameCells : Error_No_Catch_For_Throw(name)
    \/ \E s \in StateIds : Push_Trap_Helper(s)
    \/ Drop_Trap
    \/ \E frame \in ErrorFrames \ {TASK_STACK_ERROR} : Fail_Core(frame)
    \/ Trap_Stack_Overflow
    \/ \E state \in StateIds : Trapped_Helper_Halted(state)
    \/ Resume

SpecTrap == InitTrap /\ [][NextTrap]_vars

(***************************************************************************)
(* Properties of the trap mechanism (checked under SpecTrap).              *)
(***************************************************************************)

\* Walk of the last_state links from the innermost state outwards
RECURSIVE StateChain(_)
StateChain(s) == IF s = NULL THEN <<>> ELSE Append(StateChain(st[s].last_state), s)

\* The globals are what the history recorded when scope `handled` was pushed
RolledBack ==
    /\ DSF = handled.dsf
    /\ CS_Top = handled.dsf
    /\ DSP = handled.dsp
    /\ GC_Manuals = handled.manuals
    /\ SERIES_TAIL(GC_Manuals) = Len(handled.manuals)
    /\ GC_Series_Guard = handled.series_guards
    /\ GC_Value_Guard = handled.value_guards
    /\ GC_Disabled = handled.gc

\* C1: trap rollback completeness.  Once Trapped_Helper_Halted(s) has
\* returned, the running call frame (and the top of the frame chain), the
\* data stack pointer, the manual series list and its count, both guard
\* tails and the GC-disabled flag are exactly what they were when s was
\* pushed, whatever was pushed, allocated, guarded or disabled in between.
C1_RollbackComplete == pc = "recovered" => RolledBack

\* C1 witness: an unwind that released a call frame, freed a manual series
\* and restored the GC-disabled flag
C1_Witness ==
    /\ pc = "recovered"
    /\ atJump.top > CS_Top
    /\ Len(atJump.manuals) > Len(GC_Manuals)
    /\ atJump.gc # GC_Disabled

\* C2: trap scopes form a strict LIFO chain.  The last_state links from
\* Saved_State enumerate exactly the active scopes in push order (so each
\* push linked the new state to the previously innermost one); a long jump
\* always lands in the innermost scope; and after the recovery the innermost
\* scope is the one that was innermost before the handled scope was pushed.
C2_LifoChain ==
    /\ pc \in {"running", "jumped"} =>
           /\ Saved_State = Innermost
           /\ StateChain(Saved_State) = [i \in 1 .. Len(scopes) |-> scopes[i].s]
           /\ \A i \in 1 .. Len(scopes) : st[scopes[i].s].last_state = scopes[i].before
    /\ pc = "jumped" => target = Innermost /\ target # NULL
    /\ pc = "recovered" =>
           /\ Saved_State = handled.before
           /\ Saved_State = Innermost
           /\ handled.s = target

\* C2 witness: a failure inside a nested scope was handled and the outer
\* scope is the innermost one again
C2_Witness ==
    /\ pc = "recovered"
    /\ handled.before # NULL
    /\ Saved_State = handled.before
    /\ Len(atJump.manuals) > Len(GC_Manuals)

C4_PanicState ==
    /\ (lastOp \in {"Fail_Core", "Trap_Stack_Overflow"} /\ Saved_State = NULL) =>
           pc = "panicked"
    /\ pc = "panicked" =>
           /\ Saved_State = NULL
           /\ target = NULL
           /\ failed \in ErrorFrames
           /\ lastOp = "Trap_Stack_Overflow" => failed = TASK_STACK_ERROR
           /\ \A s \in StateIds : st[s] = Uninit

C4_NoTrapIsFatal == []C4_PanicState /\ [][pc = "panicked" => pc' = "panicked"]_vars

\* C4 witness: a panic raised with frames and data on the stacks
C4_Witness ==
    /\ pc = "panicked"
    /\ lastOp = "Fail_Core"
    /\ CS_Top > NULL
    /\ DSP > -1

\* C5: Trapped_Helper_Halted returns TRUE exactly for a halt, and the
\* rollback (frames, data stack, manual series, guards, GC flag, saved
\* state chain) is the same complete one for a halt as for any other error.
C5_HaltOnlyReported ==
    pc = "recovered" =>
        /\ halted = (ERR_NUM(failed) = RE_HALT)
        /\ halted = (failed = "FRM_HALT")
        /\ RolledBack
        /\ Saved_State = handled.before

\* C5 witness: a halt was trapped and its unwind rolled the state back
C5_Witness ==
    /\ pc = "recovered"
    /\ halted
    /\ failed = "FRM_HALT"
    /\ Len(atJump.manuals) > Len(GC_Manuals)
    /\ atJump.dsp > DSP

(***************************************************************************)
(* Find_Error_For_Code                                                     *)
(***************************************************************************)
\* SERIES_TAIL of the catalog frame and of a category frame
CategoriesTail == Len(catalog) + 1
CategoryTail(category) == Len(category.ids) + 3

NotFound ==
    [found |-> FALSE, asserted |-> FALSE, message |-> NONE_VALUE,
     id_out |-> Unwritten, type_out |-> Unwritten]

\* An assert(FALSE) or a failed assert of the debug build ended the process
AssertFailed ==
    [found |-> FALSE, asserted |-> TRUE, message |-> NONE_VALUE,
     id_out |-> Unwritten, type_out |-> Unwritten]

Found(message, id, type) ==
    [found |-> TRUE, asserted |-> FALSE, message |-> message,
     id_out |-> id, type_out |-> type]

\* FRM_VALUE / FRM_KEY of a category frame at index n + 3; the cell at the
\* tail is the END cell, whose symbol bits are whatever lies there
MessageAt(category, n) ==
    IF n + 3 < CategoryTail(category) THEN category.msgs[n + 1] ELSE END_VALUE

KeySymAt(category, n) ==
    IF n + 3 < CategoryTail(category) THEN category.ids[n + 1] ELSE endSym

\* The lookup of a code: category code / 100, entry code % 100
Find_Error_For_Code(code) ==
    LET c == code \div 100
        n == code % 100
    IN  IF c + 1 > CategoriesTail
        THEN NotFound
        ELSE IF c + 1 = CategoriesTail
             \* the cell at the tail is END, not an object
             THEN IF ndebug THEN NotFound ELSE AssertFailed
             ELSE LET category == catalog[c + 1]
                      message == MessageAt(category, n)
                  IN  IF n + 3 > CategoryTail(category)
                      THEN NotFound
                      ELSE IF ~ndebug /\ category.code # c * 100
                           THEN AssertFailed
                           ELSE IF ~IS_STRING(category.type)
                                THEN IF ndebug THEN NotFound ELSE AssertFailed
                                ELSE IF ~ndebug /\ ~(IS_BLOCK(message) \/ IS_STRING(message))
                                     THEN AssertFailed
                                     ELSE Found(message,
                                                Word(KeySymAt(category, n)),
                                                Word(category.sym))

\* The codes the model asks for
TestCodes == {c * 100 + n : c \in 0 .. MaxCat, n \in 0 .. MaxOff}

InitErr ==
    /\ TrapIdle
    /\ FuncIdle
    /\ ObjIdle
    /\ InvIdle
    /\ GobIdle
    /\ catalog \in Catalogs
    /\ endSym \in {"halt", "message"}
    /\ eop = "idle"
    /\ ein = [code |-> 0]
    /\ eout = [outcome |-> "none"]

Call_Find_Error_For_Code ==
    /\ eop = "idle"
    /\ \E code \in TestCodes \cup {-1} :
           /\ ein' = [code |-> code]
           /\ eout' = Find_Error_For_Code(REBCNT(code))
    /\ eop' = "Find_Error_For_Code"
    /\ UNCHANGED <<catalog, endSym>>
    /\ UNCHANGED <<trapVars, funcVars, objVars, invVars, gobVars>>

\* The caller is done with the result
Return ==
    /\ eop # "idle"
    /\ eop' = "idle"
    /\ ein' = [code |-> 0]
    /\ eout' = [outcome |-> "none"]
    /\ UNCHANGED <<catalog, endSym>>
    /\ UNCHANGED <<trapVars, funcVars, objVars, invVars, gobVars>>

(***************************************************************************)
(* Make_Error_Core                                                         *)
(***************************************************************************)
NULL_ARG == [kind |-> "NULL"]
ArgValues == {MkInteger(7), Str("arg")}

\* Index of a fixed field of ERROR_OBJ in the error frame
FieldIndex(name) == CHOOSE i \in 1 .. Len(RootKeys) : RootKeys[i] = name
ErrField(vals, name) == vals[FieldIndex(name)]
SetField(vals, name, v) == [vals EXCEPT ![FieldIndex(name)] = v]

\* SYM_ARG1 + n
LegacySym(i) == <<"arg1", "arg2", "arg3">>[i]

\* The GET-WORD!s of a message template, in order (none for a string)
Markers(message) ==
    IF IS_BLOCK(message) THEN SelectSeq(message.items, IS_GET_WORD) ELSE <<>>

\* expected_args as the build computes it
ExpectedArgs(message, legacy, erroring) ==
    IF ~ndebug /\ legacy
    THEN 3
    ELSE Len(Markers(message)) + (IF ~ndebug /\ erroring THEN 2 ELSE 0)

\* The value stored for the i-th marker: what va_arg yields, or NONE for NULL
ArgFor(all, i) == IF all[i] = NULL_ARG THEN NONE_VALUE ELSE all[i]

\* The key / value cells appended after the root fields
AppendedKeys(message, legacy, erroring) ==
    LET m == Markers(message)
        k == Len(m)
    IN  IF ~ndebug /\ legacy
        THEN [i \in 1 .. 3 |-> LegacySym(i)]
        ELSE [i \in 1 .. k |-> m[i].sym]
             \o (IF ~ndebug /\ erroring THEN <<"__FILE__", "__LINE__">> ELSE <<>>)

\* The appended values, with the last argument dropped
AppendedValsShort(message, all, legacy, erroring) ==
    LET k == Len(Markers(message))
    IN  IF ~ndebug /\ legacy
        THEN [i \in 1 .. 3 |-> IF i <= k THEN ArgFor(all, i) ELSE NONE_VALUE]
        ELSE [i \in 1 .. k |-> IF i = k THEN NONE_VALUE ELSE ArgFor(all, i)]
             \o (IF ~ndebug /\ erroring
                 THEN <<[kind |-> "file"], MkInteger(0)>> ELSE <<>>)

AppendedVals(message, all, legacy, erroring) ==
    LET k == Len(Markers(message))
    IN  IF ~ndebug /\ legacy
        THEN [i \in 1 .. 3 |-> IF i <= k THEN ArgFor(all, i) ELSE NONE_VALUE]
        ELSE [i \in 1 .. k |-> ArgFor(all, i)]
             \o (IF ~ndebug /\ erroring
                 THEN <<[kind |-> "file"], MkInteger(0)>> ELSE <<>>)

Ended(how) == [outcome |-> how, keys |-> <<>>, vals |-> <<>>]

\* The fields with the code left as the template has it
FilledFieldsNoCode(vals, code, f, dsf) ==
    LET v2 == SetField(vals, "message", f.message)
        v3 == SetField(v2, "id", f.id_out)
        v4 == SetField(v3, "type", f.type_out)
    IN  IF dsf
        THEN SetField(SetField(v4, "where", Blk(<<Word("label")>>)),
                      "near", Blk(<<>>))
        ELSE v4

\* error_obj->code / message / id / type, then where and near
FilledFields(vals, code, f, dsf) ==
    LET v1 == SetField(vals, "code", MkInteger(code))
        v2 == SetField(v1, "message", f.message)
        v3 == SetField(v2, "id", f.id_out)
        v4 == SetField(v3, "type", f.type_out)
    IN  IF dsf
        THEN SetField(SetField(v4, "where", Blk(<<Word("label")>>)),
                      "near", Blk(<<>>))
        ELSE v4

\* args: the arguments passed; junk: what va_arg yields beyond them
Make_Error_Core(code, args, junk, legacy, erroring, dsf) ==
    LET f == Find_Error_For_Code(code)
        message == f.message
        k == Len(Markers(message))
        all == args \o [i \in 1 .. k |-> junk]
        expected_args == ExpectedArgs(message, legacy, erroring)
    IN  IF ~ndebug /\ code = 0 THEN Ended("assert")
        ELSE IF f.asserted THEN Ended("assert")
        \* assert(message); a release build goes on to read the NULL message
        ELSE IF ~f.found THEN (IF ndebug THEN Ended("crash") ELSE Ended("assert"))
        ELSE IF ~ndebug /\ ~IS_BLOCK(message) /\ ~IS_STRING(message)
             THEN Ended("assert")
        ELSE IF ~ndebug /\ \E i \in 1 .. k : all[i] = NULL_ARG
             THEN Ended("assert")
        ELSE IF ~ndebug /\ legacy /\ k > 3
             THEN Ended("panic")
        ELSE IF expected_args = 0
             THEN [outcome |-> "returned",
                   keys |-> RootKeys,
                   vals |-> FilledFields(RootVals, code, f, dsf)]
             ELSE [outcome |-> "returned",
                   keys |-> RootKeys \o AppendedKeys(message, legacy, erroring),
                   vals |-> FilledFields(
                       RootVals \o AppendedVals(message, all, legacy, erroring),
                       code, f, dsf)]

RECURSIVE SeqsUpTo(_, _)
SeqsUpTo(S, n) ==
    IF n = 0 THEN {<<>>}
    ELSE SeqsUpTo(S, n - 1)
         \cup {Append(q, x) : q \in {r \in SeqsUpTo(S, n - 1) : Len(r) = n - 1}, x \in S}

\* The legacy option and TG_Erroring_C_File exist in debug builds only
DebugFlags == IF ndebug THEN {FALSE} ELSE BOOLEAN

Call_Make_Error_Core ==
    /\ eop = "idle"
    /\ \E code \in TestCodes, args \in SeqsUpTo(ArgValues \cup {NULL_ARG}, MaxArgs),
          junk \in {NULL_ARG, MkInteger(7)}, legacy \in DebugFlags,
          erroring \in DebugFlags, dsf \in BOOLEAN :
           /\ ein' = [code |-> code, args |-> args, junk |-> junk,
                      legacy |-> legacy, erroring |-> erroring, dsf |-> dsf]
           /\ eout' = Make_Error_Core(code, args, junk, legacy, erroring, dsf)
    /\ eop' = "Make_Error_Core"
    /\ UNCHANGED <<catalog, endSym>>
    /\ UNCHANGED <<trapVars, funcVars, objVars, invVars, gobVars>>

(***************************************************************************)
(* Make_Error_Object_Throws                                                *)
(***************************************************************************)
\* The fixed fields of an error frame that the routine reads and writes
Fields(code, type, id, message) ==
    [code |-> code, type |-> type, id |-> id, message |-> message]

RootFields ==
    Fields(ErrField(RootVals, "code"), ErrField(RootVals, "type"),
           ErrField(RootVals, "id"), ErrField(RootVals, "message"))

\* Keys and values of a category frame (index 0 is SELF)
CategoryKeys(category) == <<"code", "type">> \o category.ids
CategoryVals(category) ==
    <<MkInteger(category.code), category.type>> \o category.msgs

\* Find_Word_Index(frame, sym, FALSE): index of the key in the frame, 0 if none
Find_Word_Index(keys, sym) ==
    IF \E i \in 1 .. Len(keys) : keys[i] = sym
    THEN CHOOSE i \in 1 .. Len(keys) :
             keys[i] = sym /\ \A j \in 1 .. i - 1 : keys[j] # sym
    ELSE 0

\* Index, in the keys after SELF, of the catalog category keyed by sym
CategoryIndex(sym) == Find_Word_Index([i \in 1 .. Len(catalog) |-> catalog[i].sym], sym)

\* What a call ends with: how it ends, the error it fails with, the fields
\* of the error object made, and what the out cell holds afterwards
OutUnset == "unset"
OutError == "error"
\* fail (Error(RE_INVALID_ERROR, arg))
Invalid ==
    [outcome |-> "fail", error |-> "RE_INVALID_ERROR", obj |-> RootFields,
     out |-> OutUnset]
\* Val_Init_Error(out, frame); return FALSE
Made(obj) == [outcome |-> "made", error |-> "none", obj |-> obj, out |-> OutError]
Asserted ==
    [outcome |-> "assert", error |-> "none", obj |-> RootFields, out |-> OutUnset]
\* *out = evaluated; return TRUE
Thrown(evaluated) ==
    [outcome |-> "thrown", error |-> "none", obj |-> RootFields,
     out |-> evaluated]

\* The check of a supplied type against the catalog's, as written: it tests
\* IS_WORD of the (already normalized) id, then reads the word symbol of the
\* type cell.  For a type that is no word that symbol is whatever the cell
\* holds: junkSame tells whether it happens to equal the catalog's symbol.
TypeConflicts(obj_type, f, junkSame) ==
    \/ ~IS_WORD(f.id_out)
    \/ IF IS_WORD(obj_type)
       THEN ~SAME_SYM(obj_type.sym, f.type_out.sym)
       ELSE ~junkSame

IdConflicts(obj_id, f) ==
    \/ ~IS_WORD(obj_id)
    \/ ~SAME_SYM(obj_id.sym, f.id_out.sym)

\* Code below RE_USER: the catalog decides (lines 573-623)
ValidateSystemCode(obj, junkSame) ==
    IF ~IS_NONE(obj.message) THEN Invalid
    ELSE LET f == Find_Error_For_Code(REBCNT(obj.code.n))
         IN  IF f.asserted THEN Asserted
             ELSE IF ~f.found THEN Invalid
             ELSE IF ~IS_NONE(obj.id) /\ IdConflicts(obj.id, f) THEN Invalid
             ELSE IF ~IS_NONE(obj.type) /\ TypeConflicts(obj.type, f, junkSame)
                  THEN Invalid
             ELSE Made(Fields(obj.code, f.type_out, f.id_out, f.message))

\* No code, but a type word and an id word (lines 625-695)
ValidateTypeAndId(obj) ==
    IF ~ndebug /\ ~IS_NONE(obj.code) THEN Asserted
    ELSE LET c == CategoryIndex(obj.type.sym)
         IN  IF c = 0
             THEN Made([obj EXCEPT !.code = MkInteger(RE_USER)])
             ELSE LET category == catalog[c]
                      m == Find_Word_Index(CategoryKeys(category), obj.id.sym)
                  IN  IF m = 0 THEN Invalid
                      ELSE IF ~ndebug
                              /\ ~IS_STRING(CategoryVals(category)[m])
                              /\ ~IS_BLOCK(CategoryVals(category)[m])
                           THEN Asserted
                      ELSE IF ~IS_NONE(obj.message) THEN Invalid
                      ELSE Made([obj EXCEPT
                               !.message = CategoryVals(category)[m],
                               !.code = MkInteger(REBCNT(
                                   category.code
                                   + Find_Word_Index(Tail(RootKeys), obj.id.sym)
                                   - Find_Word_Index(Tail(RootKeys), "type")
                                   - 1))])

\* The last branch with the code left as supplied
ValidateOtherNoCode(obj) ==
    IF \/ ~(IS_WORD(obj.id) \/ IS_NONE(obj.id))
       \/ ~(IS_WORD(obj.type) \/ IS_NONE(obj.type))
       \/ ~(IS_BLOCK(obj.message) \/ IS_STRING(obj.message)
            \/ IS_NONE(obj.message))
    THEN Invalid
    ELSE Made(obj)

\* Anything else (lines 696-729)
ValidateOther(obj) ==
    IF ~IS_NONE(obj.code)
    \* an integer code never reaches this branch
    THEN Invalid
    ELSE IF \/ ~(IS_WORD(obj.id) \/ IS_NONE(obj.id))
            \/ ~(IS_WORD(obj.type) \/ IS_NONE(obj.type))
            \/ ~(IS_BLOCK(obj.message) \/ IS_STRING(obj.message)
                 \/ IS_NONE(obj.message))
         THEN Invalid
         ELSE Made([obj EXCEPT !.code = MkInteger(RE_USER)])

\* The validation with every integer code checked against the catalog
ValidateAllCodes(obj, junkSame) ==
    IF IS_INTEGER(obj.code)
    THEN ValidateSystemCode(obj, junkSame)
    ELSE IF IS_WORD(obj.type) /\ IS_WORD(obj.id)
         THEN ValidateTypeAndId(obj)
         ELSE ValidateOther(obj)

\* The three branches on the code field (lines 573, 625, 696)
Validate(obj, junkSame) ==
    IF IS_INTEGER(obj.code)
    THEN IF obj.code.n < RE_USER
         THEN ValidateSystemCode(obj, junkSame)
         ELSE Made(obj)
    ELSE IF IS_WORD(obj.type) /\ IS_WORD(obj.id)
         THEN ValidateTypeAndId(obj)
         ELSE ValidateOther(obj)

\* arg: [kind, obj, throws, evaluated, s]; an object's or block's fields are
\* given as they stand after the merge with the root template, a block's
\* evaluation throws or not and leaves the value evaluated
\* The string stored with a replacement text
StringFieldsLost(s) == [RootFields EXCEPT !.message = Str("")]

StringFields(s) == [RootFields EXCEPT !.message = Str(s)]

\* The construction with a block's fields validated before its throw is seen
Make_Error_Object_ValidatesFirst(arg, junkSame) ==
    IF arg.kind \in {"error", "object"} THEN Validate(arg.obj, junkSame)
    ELSE IF arg.kind = "block"
         THEN IF Validate(arg.obj, junkSame).outcome # "made"
              THEN Validate(arg.obj, junkSame)
              ELSE IF arg.throws THEN Thrown(arg.evaluated)
              ELSE Validate(arg.obj, junkSame)
    ELSE IF arg.kind = "string" THEN Validate(StringFields(arg.s), junkSame)
    ELSE Invalid

Make_Error_Object_Throws(arg, junkSame) ==
    IF arg.kind \in {"error", "object"} THEN Validate(arg.obj, junkSame)
    ELSE IF arg.kind = "block"
         THEN IF arg.throws
              THEN Thrown(arg.evaluated)
              ELSE Validate(arg.obj, junkSame)
    ELSE IF arg.kind = "string" THEN Validate(StringFields(arg.s), junkSame)
    ELSE Invalid

CodeVals ==
    {NONE_VALUE, Str("c")}
    \cup {MkInteger(n) : n \in {c * 100 + k : c \in 0 .. MaxCat, k \in {1, 2}}
                               \cup {-1, RE_USER - 1, RE_USER, RE_USER + 1}}
TypeVals ==
    {NONE_VALUE, Word("user"), Word("script"), WordAs("script", TRUE),
     Word("special"), Word("other"), MkInteger(5)}
IdVals ==
    {NONE_VALUE, Word("message"), Word("no-value"), WordAs("no-value", TRUE),
     Word("halt"), Word("type"), Str("id")}
MessageVals == {NONE_VALUE, Str("oops"), Blk(<<>>), MkInteger(1)}
Strings == {"oops", ""}

ObjectArgs ==
    {[kind |-> k, obj |-> Fields(c, ty, id, m), throws |-> FALSE,
      evaluated |-> OutUnset, s |-> ""] :
        k \in {"object"}, c \in CodeVals, ty \in TypeVals, id \in IdVals,
        m \in MessageVals}

BlockArgs ==
    {[kind |-> "block", obj |-> Fields(c, Word("script"), id, NONE_VALUE),
      throws |-> th, evaluated |-> v, s |-> ""] :
        c \in {NONE_VALUE, MkInteger(100)}, id \in {Word("no-value"), Word("halt")},
        th \in BOOLEAN, v \in ThrowArgs}

OtherArgs ==
    {[kind |-> k, obj |-> RootFields, throws |-> FALSE,
      evaluated |-> OutUnset, s |-> s] :
        k \in {"string", "integer"}, s \in Strings}

\* What the symbol bits of a cell that is no word may turn out to be
JunkChoices(arg) == IF IS_WORD(arg.obj.type) THEN {FALSE} ELSE BOOLEAN

Call_Make_Error_Object_Throws ==
    /\ eop = "idle"
    /\ \E arg \in ObjectArgs \cup BlockArgs \cup OtherArgs :
         \E junkSame \in JunkChoices(arg) :
           /\ ein' = [arg |-> arg, junkSame |-> junkSame]
           /\ eout' = Make_Error_Object_Throws(arg, junkSame)
    /\ eop' = "Make_Error_Object_Throws"
    /\ UNCHANGED <<catalog, endSym>>
    /\ UNCHANGED <<trapVars, funcVars, objVars, invVars, gobVars>>

NextErr ==
    \/ Call_Find_Error_For_Code
    \/ Call_Make_Error_Core
    \/ Call_Make_Error_Object_Throws
    \/ Return

SpecErr == InitErr /\ [][NextErr]_vars

(***************************************************************************)
(* Properties of error construction (checked under SpecErr).               *)
(***************************************************************************)

\* The catalog read directly: whether a code names an entry, and the entry
HasEntry(code) ==
    /\ code >= 0
    /\ code \div 100 < Len(catalog)
    /\ code % 100 < Len(catalog[(code \div 100) + 1].ids)

EntryType(code) == Word(catalog[(code \div 100) + 1].sym)
EntryId(code) == Word(catalog[(code \div 100) + 1].ids[(code % 100) + 1])
EntryMessage(code) == catalog[(code \div 100) + 1].msgs[(code % 100) + 1]

\* C6: Find_Error_For_Code answers not-found for every code that has no
\* catalog entry and then leaves id_out and type_out unwritten; when it
\* returns a message, type_out is the key word of category code/100 and
\* id_out the key word of entry code%100 of that category.
C6_NotFoundLeavesOutputs ==
    eop = "Find_Error_For_Code" =>
        /\ ~HasEntry(ein.code) =>
               /\ ~eout.found
               /\ eout.id_out = Unwritten
               /\ eout.type_out = Unwritten
        /\ eout.found =>
               /\ HasEntry(ein.code)
               /\ eout.type_out = EntryType(ein.code)
               /\ eout.id_out = EntryId(ein.code)
               /\ eout.message = EntryMessage(ein.code)

\* The arguments of a Make_Error_Core call fit its template: as many as it
\* has markers, none of them NULL
ArgsFit ==
    /\ HasEntry(ein.code)
    /\ Len(ein.args) = Len(Markers(EntryMessage(ein.code)))
    /\ \A i \in 1 .. Len(ein.args) : ein.args[i] # NULL_ARG

CatalogFieldsKept ==
    /\ ErrField(eout.vals, "code") = MkInteger(ein.code)
    /\ ErrField(eout.vals, "type") = EntryType(ein.code)
    /\ ErrField(eout.vals, "id") = EntryId(ein.code)
    /\ ErrField(eout.vals, "message") = EntryMessage(ein.code)
    /\ ErrField(eout.vals, "type") = Find_Error_For_Code(ein.code).type_out
    /\ ErrField(eout.vals, "id") = Find_Error_For_Code(ein.code).id_out
    /\ ErrField(eout.vals, "message") = Find_Error_For_Code(ein.code).message

\* C7 as stated: for every code of the catalog, Make_Error_Core with as
\* many arguments as the template has markers yields an error object whose
\* code, type, id and message reproduce the catalog entry.
C7_RoundTripEveryCode ==
    (eop = "Make_Error_Core" /\ ArgsFit) =>
        /\ eout.outcome = "returned"
        /\ CatalogFieldsKept

\* C7 amended: the same for every code of the catalog other than 0 (and,
\* in the legacy arg1-arg3 mode of a debug build, templates of at most three
\* markers); code 0 yields the object in a release build only.
C7_RoundTripNonZero ==
    (eop = "Make_Error_Core" /\ ArgsFit) =>
        /\ (ein.code # 0 \/ ndebug) => eout.outcome = "returned"
        /\ eout.outcome = "returned" => CatalogFieldsKept

\* C7 witness: an error made from a two-marker template with two arguments
C7_Witness ==
    /\ eop = "Make_Error_Core"
    /\ ArgsFit
    /\ Len(ein.args) = 2
    /\ eout.outcome = "returned"
    /\ ErrField(eout.vals, "id") = Word("not-related")

\* The fields appended after the root template's, against the template
AppendedPerTemplate ==
    LET m == Markers(Find_Error_For_Code(ein.code).message)
        base == Len(RootKeys)
    IN  /\ Len(eout.keys) = base + Len(m)
        /\ \A i \in 1 .. Len(m) :
               /\ eout.keys[base + i] = m[i].sym
               /\ i <= Len(ein.args) =>
                      eout.vals[base + i] =
                          (IF ein.args[i] = NULL_ARG THEN NONE_VALUE ELSE ein.args[i])

\* C8 as stated: Make_Error_Core appends exactly one field per GET-WORD
\* marker of the template (none for a string), keyed by the marker's symbol
\* and holding the matching argument (NONE for a NULL one in a release
\* build); the keylist and the varlist end with equal lengths.
C8_FieldsPerMarker ==
    (eop = "Make_Error_Core" /\ eout.outcome = "returned") =>
        /\ AppendedPerTemplate
        /\ Len(eout.keys) = Len(eout.vals)

\* C8 amended: so it is in a release build, and in a debug build when
\* neither the legacy arg1-arg3 option is on nor a fail/panic is in
\* progress; the keylist and the varlist have equal lengths in every build.
C8_FieldsPerMarkerRelease ==
    (eop = "Make_Error_Core" /\ eout.outcome = "returned") =>
        /\ (ndebug \/ (~ein.legacy /\ ~ein.erroring)) => AppendedPerTemplate
        /\ Len(eout.keys) = Len(eout.vals)
        /\ Len(eout.keys) >= Len(RootKeys)

\* C8 witness: a release build filled NONE for the missing second argument
C8_Witness ==
    /\ eop = "Make_Error_Core"
    /\ ndebug
    /\ eout.outcome = "returned"
    /\ Len(ein.args) = 2
    /\ ein.args[1] # NULL_ARG
    /\ ein.args[2] = NULL_ARG
    /\ Len(eout.keys) = Len(RootKeys) + 2
    /\ eout.vals[Len(RootKeys) + 1] = ein.args[1]
    /\ eout.vals[Len(RootKeys) + 2] = NONE_VALUE

UserErrorOf(s) ==
    /\ eout.outcome = "made"
    /\ eout.obj.message = Str(s)
    /\ eout.obj.type = ErrField(RootVals, "type")
    /\ eout.obj.id = ErrField(RootVals, "id")
    /\ eout.obj.code = MkInteger(RE_USER)

\* C9 as stated: an error made from a string always succeeds and has the
\* string as message, the root template's type and id and code RE_USER,
\* whatever the catalog holds.
C9_StringAlwaysUser ==
    (eop = "Make_Error_Object_Throws" /\ ein.arg.kind = "string") =>
        UserErrorOf(ein.arg.s)

\* C9 amended: so it is whenever no catalog category is keyed by the root
\* template's type word; when one is, the construction fails with
\* invalid-error instead.
C9_StringUserUnlessReserved ==
    (eop = "Make_Error_Object_Throws" /\ ein.arg.kind = "string") =>
        IF CategoryIndex(ErrField(RootVals, "type").sym) = 0
        THEN UserErrorOf(ein.arg.s)
        ELSE eout = Invalid

\* C9 witness: a user error made from "oops" under a three-category catalog
C9_Witness ==
    /\ eop = "Make_Error_Object_Throws"
    /\ ein.arg.kind = "string"
    /\ ein.arg.s = "oops"
    /\ Len(catalog) = 3
    /\ eout.outcome = "made"
    /\ eout.obj.message = Str("oops")

\* What the claim admits for a code below RE_USER
Admissible(obj) ==
    /\ HasEntry(obj.code.n)
    /\ IS_NONE(obj.message)
    /\ IS_NONE(obj.id) \/ (IS_WORD(obj.id) /\ obj.id.sym = EntryId(obj.code.n).sym)
    /\ IS_NONE(obj.type)
          \/ (IS_WORD(obj.type) /\ obj.type.sym = EntryType(obj.code.n).sym)

\* C10: data with an integer code below RE_USER make an error only if the
\* code has a catalog entry, no message is supplied and any supplied id and
\* type are words equal to the catalog's; every other combination fails with
\* invalid-error; on success type, id and message are the catalog's.
C10_NoForgedSystemError ==
    (/\ eop = "Make_Error_Object_Throws"
     /\ ein.arg.kind \in {"object", "error", "block"}
     /\ ~ein.arg.throws
     /\ IS_INTEGER(ein.arg.obj.code)
     /\ ein.arg.obj.code.n < RE_USER) =>
        IF Admissible(ein.arg.obj)
        THEN /\ eout.outcome = "made"
             /\ eout.obj.code = ein.arg.obj.code
             /\ eout.obj.type = EntryType(ein.arg.obj.code.n)
             /\ eout.obj.id = EntryId(ein.arg.obj.code.n)
             /\ eout.obj.message = EntryMessage(ein.arg.obj.code.n)
        ELSE eout = Invalid

\* C11: data with an integer code of RE_USER or more make an error with
\* exactly the fields supplied, whatever the catalog holds: the result is a
\* function of the data alone, so it is the same under any two catalogs, and
\* the construction is never refused.
C11_UserCodeIgnoresCatalog ==
    (/\ eop = "Make_Error_Object_Throws"
     /\ ein.arg.kind \in {"object", "error", "block"}
     /\ ~ein.arg.throws
     /\ IS_INTEGER(ein.arg.obj.code)
     /\ ein.arg.obj.code.n >= RE_USER) =>
        eout = Made(ein.arg.obj)

\* C11 witness: a user-coded error that carries a type and an id of the
\* catalog, together with a message of its own
C11_Witness ==
    /\ eop = "Make_Error_Object_Throws"
    /\ ein.arg.obj.code = MkInteger(RE_USER + 1)
    /\ ein.arg.obj.type = Word("script")
    /\ ein.arg.obj.id = Word("no-value")
    /\ ein.arg.obj.message = Str("oops")
    /\ CategoryIndex("script") # 0
    /\ eout.outcome = "made"
    /\ eout.obj = ein.arg.obj

\* C12: a block whose evaluation throws ends the construction with the
\* thrown value in out, no validation, no failure and no error value; an
\* argument that is no error, object, block or string fails with
\* invalid-error.
C12_ThrowPassesThrough ==
    eop = "Make_Error_Object_Throws" =>
        /\ (ein.arg.kind = "block" /\ ein.arg.throws) =>
               /\ eout.outcome = "thrown"
               /\ eout.out = ein.arg.evaluated
               /\ eout.error = "none"
               /\ eout.out # OutError
        /\ ein.arg.kind \notin {"error", "object", "block", "string"} =>
               eout = Invalid
        /\ eout.outcome = "thrown" => (ein.arg.kind = "block" /\ ein.arg.throws)

\* C12 witness: a throwing block whose fields would not have passed the
\* validation
C12_Witness ==
    /\ eop = "Make_Error_Object_Throws"
    /\ ein.arg.kind = "block"
    /\ ein.arg.throws
    /\ Validate(ein.arg.obj, FALSE) = Invalid
    /\ eout.outcome = "thrown"
    /\ eout.out = "val_b"

\* C13: every error object that Make_Error_Object_Throws makes and every
\* one that Make_Error_Core returns has an integer in its code field.
C13_CodeIsInteger ==
    /\ (eop = "Make_Error_Object_Throws" /\ eout.outcome = "made") =>
           IS_INTEGER(eout.obj.code)
    /\ (eop = "Make_Error_Core" /\ eout.outcome = "returned") =>
           IS_INTEGER(ErrField(eout.vals, "code"))

\* C13 witness: an error made of data without code, type or id
C13_Witness ==
    /\ eop = "Make_Error_Object_Throws"
    /\ ein.arg.kind = "object"
    /\ IS_NONE(ein.arg.obj.code)
    /\ IS_NONE(ein.arg.obj.type)
    /\ IS_NONE(ein.arg.obj.id)
    /\ eout.outcome = "made"
    /\ eout.obj.code = MkInteger(RE_USER)

(***************************************************************************)
(* Function specs and parameter lists (c-function.c).                      *)
(***************************************************************************)
MaxSpec == 3

SYM_0 == "SYM_0"
SYM_RETURN == "return"
SYM_CATCH == "catch"
SYM_THROW == "throw"

SetWord(sym) == [kind |-> "set-word", sym |-> sym, alias |-> FALSE]
LitWord(sym) == [kind |-> "lit-word", sym |-> sym, alias |-> FALSE]
Refinement(sym) == [kind |-> "refinement", sym |-> sym, alias |-> FALSE]
Issue(sym) == [kind |-> "issue", sym |-> sym, alias |-> FALSE]
Tag(s) == [kind |-> "tag", s |-> s]

IS_SET_WORD(v) == v.kind = "set-word"
IS_REFINEMENT(v) == v.kind = "refinement"
IS_TAG(v) == v.kind = "tag"
IS_END(v) == v = END_VALUE
ANY_WORD(v) ==
    v.kind \in {"word", "set-word", "get-word", "lit-word", "refinement", "issue"}
ANY_BINSTR(v) == v.kind \in {"string", "tag"}

\* Datatypes a typeset can hold; a fresh key accepts all of them
Datatypes == {"integer!", "string!", "word!", "none!"}
ALL_64 == Datatypes

EXT_TYPESET_EVALUATE == "EVALUATE"
EXT_TYPESET_QUOTE == "QUOTE"
EXT_TYPESET_REFINEMENT == "REFINEMENT"
EXT_TYPESET_HIDDEN == "HIDDEN"

\* A typeset cell of a parameter list: key symbol, option flags, type bits
Typeset(sym, ext, bits) == [sym |-> sym, ext |-> ext, bits |-> bits]

\* Collect_Keylist_Managed(NULL, head, NULL, BIND_ALL | BIND_NO_DUP): one key
\* per word of the spec, in order; a symbol met twice is an error
RECURSIVE KeysOf(_)
KeysOf(words) ==
    IF words = <<>> THEN <<>>
    ELSE <<Typeset(Head(words).sym, {}, ALL_64)>> \o KeysOf(Tail(words))

Collect_Keylist_Managed(spec) ==
    LET words == SelectSeq(spec, ANY_WORD)
    IN  [failed |-> \E i, j \in 1 .. Len(words) :
                        i < j /\ words[i].sym = words[j].sym,
         params |-> KeysOf(words)]

\* Make_Typeset(head, typeset, FALSE): the bits become the block's datatypes,
\* the symbol and the flags stay
Make_Typeset(item, typeset) ==
    [typeset EXCEPT !.bits = {item.items[i].sym : i \in 1 .. Len(item.items)}]

\* How the scan of a spec stands: the list so far, the index of the current
\* typeset (0 is the head slot), the cell held in the bubble
ScanAt(params) ==
    [outcome |-> "running", error |-> "none", params |-> params, t |-> 0,
     bubble |-> END_VALUE]

\* fail (Error(RE_BAD_FUNC_DEF, item))
BadFuncDef(s) == [s EXCEPT !.outcome = "fail", !.error = "RE_BAD_FUNC_DEF"]
ScanAsserted(s) == [s EXCEPT !.outcome = "assert"]

\* A leading block that passes for any content
AttributesAny(item) == TRUE

\* The block before any parameter: only the words catch and throw
AttributesOk(item) ==
    \A i \in 1 .. Len(item.items) :
        /\ IS_WORD(item.items[i])
        /\ item.items[i].sym \in {SYM_CATCH, SYM_THROW}

\* switch (VAL_TYPE(item)): the flags of a parameter by the kind of its word
Classify(typeset, item) ==
    CASE item.kind = "word" ->
           [typeset EXCEPT !.ext = @ \cup {EXT_TYPESET_EVALUATE}]
      [] item.kind = "get-word" ->
           [typeset EXCEPT !.ext = @ \cup {EXT_TYPESET_QUOTE}]
      [] item.kind = "lit-word" ->
           [typeset EXCEPT !.ext = @ \cup {EXT_TYPESET_QUOTE, EXT_TYPESET_EVALUATE}]
      [] item.kind = "refinement" ->
           [typeset EXCEPT !.ext = @ \cup {EXT_TYPESET_REFINEMENT},
                           !.bits = {"word!", "none!"}]
      [] item.kind = "set-word" ->
           [typeset EXCEPT !.ext = @ \cup {EXT_TYPESET_HIDDEN}]

\* The slots left as they are once the bubble is taken
ShiftedNot(params, t) == params

\* *(typeset - 1) = *typeset
Shifted(params, t) == [params EXCEPT ![t - 1] = params[t]]

\* One turn of the loop over the spec
ParamStep(s, item, opt_sym_last) ==
    IF ANY_BINSTR(item) THEN s
    ELSE IF IS_BLOCK(item)
         THEN IF s.t # 0
              THEN [s EXCEPT !.params[s.t] = Make_Typeset(item, s.params[s.t])]
              ELSE IF AttributesOk(item) THEN s ELSE BadFuncDef(s)
    ELSE IF ~ANY_WORD(item) THEN BadFuncDef(s)
    ELSE IF item.kind = "issue" THEN BadFuncDef(s)
    ELSE LET t == s.t + 1
             typeset == Classify(s.params[t], item)
             s1 == [s EXCEPT !.t = t, !.params[t] = typeset]
         IN  IF typeset.sym = opt_sym_last
             THEN IF ~ndebug /\ ~IS_END(s.bubble)
                  THEN ScanAsserted(s1)
                  ELSE [s1 EXCEPT !.bubble = typeset]
             ELSE IF ~IS_END(s.bubble)
                  THEN [s1 EXCEPT !.params = Shifted(s1.params, t)]
                  ELSE s1

RECURSIVE ParamScan(_, _, _, _)
ParamScan(spec, i, s, opt_sym_last) ==
    IF i > Len(spec) \/ s.outcome # "running" THEN s
    ELSE ParamScan(spec, i + 1, ParamStep(s, spec[i], opt_sym_last), opt_sym_last)

\* What Make_Paramlist_Managed ends with
ParamlistOf(outcome, error, params) ==
    [outcome |-> outcome, error |-> error, params |-> params]

Make_Paramlist_Managed(spec, opt_sym_last) ==
    LET keys == Collect_Keylist_Managed(spec)
        s == ParamScan(spec, 1, ScanAt(keys.params), opt_sym_last)
    IN  IF keys.failed THEN ParamlistOf("fail", "RE_DUP_VARS", <<>>)
        ELSE IF s.outcome # "running" THEN ParamlistOf(s.outcome, s.error, <<>>)
        ELSE IF opt_sym_last = SYM_0 THEN ParamlistOf("returned", "none", s.params)
        ELSE IF IS_END(s.bubble)
             \* no bubble was found: the END cell goes to the slot of the
             \* last typeset, which is the head slot when there is none
             THEN IF ~ndebug THEN ParamlistOf("assert", "none", <<>>)
                  ELSE IF s.t = 0 THEN ParamlistOf("corrupt", "none", <<>>)
                  ELSE ParamlistOf("returned", "none",
                                   SubSeq(s.params, 1, s.t - 1))
             ELSE ParamlistOf("returned", "none",
                              [s.params EXCEPT ![s.t] = s.bubble])

(***************************************************************************)
(* Make_Function                                                           *)
(***************************************************************************)
\* Arrays by identity: the caller's, a fresh copy, or one of the shared ones
Array(id, items) == [id |-> id, items |-> items]
EMPTY_ARRAY == Array("EMPTY_ARRAY", <<>>)
ROOT_RETURN_BLOCK == Array("ROOT_RETURN_BLOCK", <<SetWord(SYM_RETURN)>>)
NoArray == Array("none", <<>>)
Copy_Array_At_Deep_Managed(items) == Array("copy", items)

\* How the loop over the caller's spec stands: the caller's array as it is
\* now, the two flags, and VAL_FUNC_SPEC(out) if already set
LoopAt(items, has_return) ==
    [outcome |-> "running", error |-> "none", items |-> items,
     convert_local |-> FALSE, has_return |-> has_return, infix |-> FALSE,
     spec |-> NoArray]

\* A tag met in the spec (lines 587-660)
TagStep(s, item) ==
    IF item.s = "transparent"
    THEN [s EXCEPT !.spec = Copy_Array_At_Deep_Managed(s.items),
                   !.has_return = FALSE]
    ELSE IF item.s = "infix" THEN [s EXCEPT !.infix = TRUE]
    ELSE IF item.s = "local" THEN [s EXCEPT !.convert_local = TRUE]
    ELSE BadFuncDef(s)

\* A word met while convert_local is on (lines 662-690)
LocalStep(s, i) ==
    IF IS_WORD(s.items[i])
    THEN [s EXCEPT !.items[i].kind = "set-word"]
    ELSE IF IS_REFINEMENT(s.items[i])
         THEN [s EXCEPT !.convert_local = FALSE]
         ELSE BadFuncDef(s)

\* A word of any kind but a set-word (lines 661-710)
WordStep(s, i) ==
    LET s1 == IF s.convert_local THEN LocalStep(s, i) ELSE s
    IN  IF s1.outcome # "running" THEN s1
        ELSE IF SAME_SYM(s1.items[i].sym, SYM_RETURN)
             THEN [s1 EXCEPT !.spec = Copy_Array_At_Deep_Managed(s1.items),
                             !.has_return = FALSE]
             ELSE s1

FuncStep(s, i) ==
    IF IS_SET_WORD(s.items[i]) THEN s
    ELSE IF IS_TAG(s.items[i]) THEN TagStep(s, s.items[i])
    ELSE IF ANY_WORD(s.items[i]) THEN WordStep(s, i)
    ELSE s

RECURSIVE FuncScan(_, _)
FuncScan(s, i) ==
    IF i > Len(s.items) \/ s.outcome # "running" THEN s
    ELSE FuncScan(FuncStep(s, i), i + 1)

\* VAL_FUNC_SPEC(out) and has_return as lines 538-734 leave them
SpecAnalyzed(items, has_return) ==
    IF ~has_return
    THEN [LoopAt(items, FALSE) EXCEPT
             !.spec = IF Len(items) = 0 THEN EMPTY_ARRAY
                      ELSE Copy_Array_At_Deep_Managed(items)]
    ELSE LET s == FuncScan(LoopAt(items, TRUE), 1)
         IN  IF s.outcome # "running" \/ ~s.has_return THEN s
             ELSE IF Len(items) = 0
                  THEN [s EXCEPT !.spec = ROOT_RETURN_BLOCK]
                  ELSE [s EXCEPT !.spec = Copy_Array_At_Deep_Managed(
                                              Append(s.items, SetWord(SYM_RETURN)))]

\* What Make_Function ends with: the function's fields, and the caller's
\* two arrays as they are afterwards
FunctionOf(outcome, error, spec, body, params, has_return, callerSpec, callerBody) ==
    [outcome |-> outcome, error |-> error, spec |-> spec, body |-> body,
     params |-> params, has_return |-> has_return,
     callerSpec |-> callerSpec, callerBody |-> callerBody]

Make_Function(spec, body, has_return) ==
    IF ~IS_BLOCK(spec) \/ ~IS_BLOCK(body)
    THEN FunctionOf("fail", "RE_BAD_FUNC_DEF", NoArray, NoArray, <<>>, FALSE,
                    IF IS_BLOCK(spec) THEN spec.items ELSE <<>>,
                    IF IS_BLOCK(body) THEN body.items ELSE <<>>)
    ELSE LET s == SpecAnalyzed(spec.items, has_return)
             p == Make_Paramlist_Managed(
                      s.spec.items, IF s.has_return THEN SYM_RETURN ELSE SYM_0)
             b == IF Len(body.items) = 0 THEN EMPTY_ARRAY
                  ELSE Copy_Array_At_Deep_Managed(body.items)
         IN  IF s.outcome # "running"
             THEN FunctionOf(s.outcome, s.error, NoArray, NoArray, <<>>, FALSE,
                             s.items, body.items)
             ELSE IF p.outcome # "returned"
             THEN FunctionOf(p.outcome, p.error, NoArray, NoArray, <<>>, FALSE,
                             s.items, body.items)
             ELSE IF /\ s.has_return
                     /\ ~ndebug
                     /\ \/ Len(p.params) = 0
                        \/ p.params[Len(p.params)].sym # SYM_RETURN
                        \/ EXT_TYPESET_HIDDEN \notin p.params[Len(p.params)].ext
             THEN FunctionOf("assert", "none", NoArray, NoArray, <<>>, FALSE,
                             s.items, body.items)
             ELSE FunctionOf("made", "none", s.spec, b, p.params, s.has_return,
                             s.items, body.items)

(***************************************************************************)
(* Calls of the two routines                                               *)
(***************************************************************************)
TypeBlock == Blk(<<Word("integer!")>>)

\* The block a spec may start with
Leads ==
    {<<>>, <<Blk(<<Word(SYM_CATCH), Word(SYM_THROW)>>)>>,
     <<Blk(<<Word(SYM_CATCH), Word("other")>>)>>}

ParamItems ==
    {Word("a"), GetWord("b"), LitWord("c"), Refinement("r"), SetWord("x"),
     Issue("i"), TypeBlock, Str("doc"), MkInteger(5)}

BubbleSyms == {SYM_0, "a", "x"}

Call_Make_Paramlist_Managed ==
    /\ fop = "idle"
    /\ \E lead \in Leads, items \in SeqsUpTo(ParamItems, MaxSpec),
          opt_sym_last \in BubbleSyms :
           /\ fin' = [spec |-> lead \o items, opt_sym_last |-> opt_sym_last]
           /\ fout' = Make_Paramlist_Managed(lead \o items, opt_sym_last)
    /\ fop' = "Make_Paramlist_Managed"
    /\ UNCHANGED <<trapVars, errVars, objVars, invVars, gobVars>>

FuncItems ==
    {Tag("local"), Tag("transparent"), Tag("other"), Word("a"),
     Word(SYM_RETURN), SetWord(SYM_RETURN), SetWord("x"), Refinement("r"),
     LitWord("c"), TypeBlock}

SpecValues == {Blk(items) : items \in SeqsUpTo(FuncItems, MaxSpec)} \cup {MkInteger(1)}
BodyValues == {Blk(<<>>), Blk(<<Word("a")>>), Str("body")}

Call_Make_Function ==
    /\ fop = "idle"
    /\ \E spec \in SpecValues, body \in BodyValues, has_return \in BOOLEAN :
           /\ fin' = [spec |-> spec, body |-> body, has_return |-> has_return]
           /\ fout' = Make_Function(spec, body, has_return)
    /\ fop' = "Make_Function"
    /\ UNCHANGED <<trapVars, errVars, objVars, invVars, gobVars>>

\* The caller is done with the result
Return_Func ==
    /\ fop # "idle"
    /\ fop' = "idle"
    /\ fin' = [spec |-> <<>>]
    /\ fout' = [outcome |-> "none"]
    /\ UNCHANGED <<trapVars, errVars, objVars, invVars, gobVars>>

InitFunc == TrapIdle /\ ErrIdle /\ FuncIdle /\ ObjIdle /\ InvIdle /\ GobIdle

(***************************************************************************)
(* Function values and slot 0 of their parameter lists                     *)
(***************************************************************************)
REB_NATIVE == "native!"
REB_ACTION == "action!"
REB_FUNCTION == "function!"
REB_CLOSURE == "closure!"
EXT_FUNC_FRAMELESS == "FRAMELESS"
EXT_FUNC_HAS_RETURN == "HAS_RETURN"
EXT_TYPESET_LOCKED == "LOCKED"

\* Parameter lists by identity
ParamlistIds == {"P1", "P2"}
NoValue == [kind |-> "unset"]

\* An ANY-FUNCTION! cell: header kind and flags, spec, body or code, and the
\* parameter list it points at
FunctionValue(kind, exts, spec, body, func) ==
    [kind |-> kind, exts |-> exts, spec |-> spec, body |-> body, func |-> func]

\* A parameter list: slot 0 and the typesets after it
Paramlist(slot0, params) == [slot0 |-> slot0, params |-> params]

\* The heap of parameter lists; a list not made yet is no function's
NoParamlists == [p \in ParamlistIds |-> Paramlist(NoValue, <<>>)]

\* What a maker leaves: the out cell and the parameter lists
Built(outcome, cell, lists) == [outcome |-> outcome, out |-> cell, lists |-> lists]

\* VAL_SET_EXT(param, EXT_TYPESET_LOCKED) on every parameter
Locked(params) ==
    [i \in 1 .. Len(params) |->
        [params[i] EXCEPT !.ext = @ \cup {EXT_TYPESET_LOCKED}]]

Make_Native(spec, code, type, frameless) ==
    LET p == Make_Paramlist_Managed(spec, SYM_0)
        cell == FunctionValue(type,
                             IF frameless THEN {EXT_FUNC_FRAMELESS} ELSE {},
                             Array("spec", spec), code, "P1")
    IN  IF p.outcome # "returned" THEN Built(p.outcome, NoValue, NoParamlists)
        ELSE Built("made", cell,
                   [NoParamlists EXCEPT !["P1"] = Paramlist(cell, Locked(p.params))])

\* Lines 790-799 of Make_Function: the header, the flags, then slot 0
Function_Value(type, m) ==
    LET cell == FunctionValue(type,
                             IF m.has_return THEN {EXT_FUNC_HAS_RETURN} ELSE {},
                             m.spec, m.body, "P1")
    IN  IF m.outcome # "made" THEN Built(m.outcome, NoValue, NoParamlists)
        ELSE Built("made", cell,
                   [NoParamlists EXCEPT !["P1"] = Paramlist(cell, m.params)])

\* The clone with slot 0 left as the shallow copy brought it
Clonify_FunctionStale(value, lists) ==
    IF value.kind # REB_FUNCTION THEN Built("made", value, lists)
    ELSE LET clone == [value EXCEPT !.func = "P2",
                                    !.body = Array("clone", @.items)]
         IN  Built("made", clone, [lists EXCEPT !["P2"] = lists[value.func]])

\* Clonify_Function(value): value is a raw duplicate of a function's cell
Clonify_Function(value, lists) ==
    IF value.kind # REB_FUNCTION THEN Built("made", value, lists)
    ELSE LET clone == [value EXCEPT !.func = "P2",
                                    !.body = Array("clone", @.items)]
         IN  Built("made", clone,
                   [lists EXCEPT !["P2"] =
                       Paramlist(clone, lists[value.func].params)])

\* List_Func_Words: the visible parameters as words of their class
WordOfParam(typeset) ==
    IF EXT_TYPESET_REFINEMENT \in typeset.ext THEN Refinement(typeset.sym)
    ELSE IF EXT_TYPESET_QUOTE \in typeset.ext
         THEN IF EXT_TYPESET_EVALUATE \in typeset.ext
              THEN LitWord(typeset.sym)
              ELSE GetWord(typeset.sym)
         ELSE Word(typeset.sym)

RECURSIVE List_Func_WordsAll(_)
List_Func_WordsAll(params) ==
    IF params = <<>> THEN <<>>
    ELSE <<WordOfParam(Head(params))>> \o List_Func_WordsAll(Tail(params))

RECURSIVE List_Func_Words(_)
List_Func_Words(params) ==
    IF params = <<>> THEN <<>>
    ELSE IF EXT_TYPESET_HIDDEN \in Head(params).ext
         THEN List_Func_Words(Tail(params))
         ELSE <<WordOfParam(Head(params))>> \o List_Func_Words(Tail(params))

\* List_Func_Typesets: every parameter, its header reset to a plain typeset
List_Func_Typesets(params) ==
    [i \in 1 .. Len(params) |-> Typeset(params[i].sym, {}, params[i].bits)]

NativeSpecs == SeqsUpTo({Word("a"), Refinement("r"), TypeBlock, MkInteger(5)}, MaxSpec)

Call_Make_Native ==
    /\ fop = "idle"
    /\ \E spec \in NativeSpecs, type \in {REB_NATIVE, REB_ACTION},
          frameless \in BOOLEAN :
           /\ fin' = [spec |-> spec, type |-> type, frameless |-> frameless]
           /\ fout' = Make_Native(spec, "N_code", type, frameless)
    /\ fop' = "Make_Native"
    /\ UNCHANGED <<trapVars, errVars, objVars, invVars, gobVars>>

CloneSpecs ==
    {Blk(items) :
        items \in SeqsUpTo({Word("a"), SetWord("x"), Tag("transparent")}, MaxSpec)}

\* A function is made, its cell is duplicated, and the duplicate is clonified
Call_Clonify_Function ==
    /\ fop = "idle"
    /\ \E spec \in CloneSpecs, body \in {Blk(<<>>), Blk(<<Word("a")>>)},
          has_return \in BOOLEAN, type \in {REB_FUNCTION, REB_CLOSURE} :
           LET made == Function_Value(type, Make_Function(spec, body, has_return))
           IN  /\ made.outcome = "made"
               /\ fin' = [value |-> made.out, lists |-> made.lists]
               /\ fout' = Clonify_Function(made.out, made.lists)
    /\ fop' = "Clonify_Function"
    /\ UNCHANGED <<trapVars, errVars, objVars, invVars, gobVars>>

Call_List_Func_Words ==
    /\ fop = "idle"
    /\ \E lead \in Leads, items \in SeqsUpTo(ParamItems, MaxSpec),
          opt_sym_last \in BubbleSyms :
           LET p == Make_Paramlist_Managed(lead \o items, opt_sym_last)
           IN  /\ p.outcome = "returned"
               /\ fin' = [spec |-> lead \o items, params |-> p.params]
               /\ fout' = [outcome |-> "returned",
                           words |-> List_Func_Words(p.params),
                           typesets |-> List_Func_Typesets(p.params)]
    /\ fop' = "List_Func_Words"
    /\ UNCHANGED <<trapVars, errVars, objVars, invVars, gobVars>>

NextFunc ==
    \/ Call_Make_Paramlist_Managed
    \/ Call_Make_Function
    \/ Call_Make_Native
    \/ Call_Clonify_Function
    \/ Call_List_Func_Words
    \/ Return_Func

SpecFunc == InitFunc /\ [][NextFunc]_vars

(***************************************************************************)
(* Properties of function construction (checked under SpecFunc).           *)
(***************************************************************************)

\* The words of a spec in declaration order, and their symbols
DeclaredWords(spec) == SelectSeq(spec, ANY_WORD)
Declared(spec) ==
    [i \in 1 .. Len(DeclaredWords(spec)) |-> DeclaredWords(spec)[i].sym]
Syms(params) == [i \in 1 .. Len(params) |-> params[i].sym]
Without(syms, sym) == SelectSeq(syms, LAMBDA y : y # sym)
Declares(spec, sym) == \E i \in 1 .. Len(spec) : ANY_WORD(spec[i]) /\ spec[i].sym = sym

\* The flags the kind of a spec word stands for
FlagsOf(kind) ==
    CASE kind = "word" -> {EXT_TYPESET_EVALUATE}
      [] kind = "get-word" -> {EXT_TYPESET_QUOTE}
      [] kind = "lit-word" -> {EXT_TYPESET_QUOTE, EXT_TYPESET_EVALUATE}
      [] kind = "refinement" -> {EXT_TYPESET_REFINEMENT}
      [] kind = "set-word" -> {EXT_TYPESET_HIDDEN}
      [] OTHER -> {}

\* Every entry of the list is the entry of a declared word, with its flags
EntriesAreDeclared(spec, params) ==
    \A k \in 1 .. Len(params) :
        \E i \in 1 .. Len(spec) :
            /\ ANY_WORD(spec[i])
            /\ spec[i].sym = params[k].sym
            /\ params[k].ext = FlagsOf(spec[i].kind)

\* C14: with a requested symbol that the spec declares, the parameter list
\* returned has that symbol's entry last and the other parameters in their
\* declaration order, none lost or doubled; with SYM_0 the order is the
\* declaration order.
C14_BubbleKeepsOrder ==
    /\ (/\ fop = "Make_Paramlist_Managed"
        /\ fout.outcome = "returned"
        /\ fin.opt_sym_last = SYM_0 \/ Declares(fin.spec, fin.opt_sym_last)) =>
           /\ Syms(fout.params) =
                  IF fin.opt_sym_last = SYM_0
                  THEN Declared(fin.spec)
                  ELSE Append(Without(Declared(fin.spec), fin.opt_sym_last),
                              fin.opt_sym_last)
           /\ EntriesAreDeclared(fin.spec, fout.params)
    \* a function made with a definitional return has it in the last slot
    /\ (fop = "Make_Function" /\ fout.outcome = "made") =>
           /\ Syms(fout.params) = Declared(fout.spec.items)
           /\ fout.has_return =>
                  /\ Len(fout.params) > 0
                  /\ fout.params[Len(fout.params)] =
                         Typeset(SYM_RETURN, {EXT_TYPESET_HIDDEN}, ALL_64)

\* C14 witness: the first of three parameters was moved behind the other two
C14_Witness ==
    /\ fop = "Make_Paramlist_Managed"
    /\ fin.opt_sym_last = "a"
    /\ Declared(fin.spec) = <<"a", "b", "c">>
    /\ fout.outcome = "returned"
    /\ Syms(fout.params) = <<"b", "c", "a">>

\* The entry of a symbol in a parameter list
HasParam(params, sym) == \E k \in 1 .. Len(params) : params[k].sym = sym
ParamOf(params, sym) ==
    params[CHOOSE k \in 1 .. Len(params) : params[k].sym = sym]

\* C15: each parameter carries the flags of its spec word's kind (word:
\* evaluate; get-word: quote; lit-word: quote and evaluate; refinement: the
\* refinement flag; set-word: hidden), and every refinement of the finished
\* list accepts exactly word! and none!, whatever follows it in the spec.
C15_ClassifiedBySigil ==
    (fop = "Make_Paramlist_Managed" /\ fout.outcome = "returned") =>
        \A i \in 1 .. Len(fin.spec) :
            (ANY_WORD(fin.spec[i]) /\ HasParam(fout.params, fin.spec[i].sym)) =>
                LET param == ParamOf(fout.params, fin.spec[i].sym)
                IN  /\ param.ext = FlagsOf(fin.spec[i].kind)
                    /\ IS_REFINEMENT(fin.spec[i]) => param.bits = {"word!", "none!"}

\* The elements between a word of the spec and the next word
RECURSIVE BlockFollows(_, _)
BlockFollows(spec, i) ==
    /\ i + 1 <= Len(spec)
    /\ ~ANY_WORD(spec[i + 1])
    /\ IS_BLOCK(spec[i + 1]) \/ BlockFollows(spec, i + 1)

\* C16: a parameter whose word is immediately followed by a block has, in
\* the list returned, the typeset made of that block; a parameter that no
\* block follows keeps the typeset it had; also when a bubble symbol is
\* requested and the parameter is the bubbled one or comes after it.
C16_TypeBlockReachesItsParam ==
    (fop = "Make_Paramlist_Managed" /\ fout.outcome = "returned") =>
        \A i \in 1 .. Len(fin.spec) :
            (ANY_WORD(fin.spec[i]) /\ HasParam(fout.params, fin.spec[i].sym)) =>
                LET param == ParamOf(fout.params, fin.spec[i].sym)
                IN  /\ (i + 1 <= Len(fin.spec) /\ IS_BLOCK(fin.spec[i + 1])) =>
                           param.bits =
                               {fin.spec[i + 1].items[k].sym :
                                    k \in 1 .. Len(fin.spec[i + 1].items)}
                    /\ ~BlockFollows(fin.spec, i) =>
                           param.bits = IF IS_REFINEMENT(fin.spec[i])
                                        THEN {"word!", "none!"}
                                        ELSE ALL_64

\* A word stands in a <local> run: after a <local> tag, no refinement between
InLocalRun(items, i) ==
    \E j \in 1 .. i - 1 :
        /\ items[j] = Tag("local")
        /\ \A k \in j + 1 .. i - 1 : ~IS_REFINEMENT(items[k])

KnownTags == {"transparent", "infix", "local"}

\* What the claim calls a bad definition, for Make_Function
BadForFunction(spec, body) ==
    \/ ~IS_BLOCK(spec)
    \/ ~IS_BLOCK(body)
    \/ \E i \in 1 .. Len(spec.items) :
           \/ IS_TAG(spec.items[i]) /\ spec.items[i].s \notin KnownTags
           \/ /\ ANY_WORD(spec.items[i])
              /\ ~IS_WORD(spec.items[i])
              /\ ~IS_REFINEMENT(spec.items[i])
              /\ InLocalRun(spec.items, i)

\* The same with set-words allowed in a <local> run
BadForGenerator(spec, body) ==
    \/ ~IS_BLOCK(spec)
    \/ ~IS_BLOCK(body)
    \/ \E i \in 1 .. Len(spec.items) :
           \/ IS_TAG(spec.items[i]) /\ spec.items[i].s \notin KnownTags
           \/ /\ ANY_WORD(spec.items[i])
              /\ ~IS_WORD(spec.items[i])
              /\ ~IS_REFINEMENT(spec.items[i])
              /\ ~IS_SET_WORD(spec.items[i])
              /\ InLocalRun(spec.items, i)

\* What the claim calls a bad spec, for Make_Paramlist_Managed
BadForParamlist(spec) ==
    \/ \E i \in 1 .. Len(spec) :
           ~ANY_BINSTR(spec[i]) /\ ~IS_BLOCK(spec[i]) /\ ~ANY_WORD(spec[i])
    \/ \E i \in 1 .. Len(spec) :
           /\ IS_BLOCK(spec[i])
           /\ \A j \in 1 .. i - 1 : ~ANY_WORD(spec[j])
           /\ \E k \in 1 .. Len(spec[i].items) :
                  spec[i].items[k] \notin {Word(SYM_CATCH), Word(SYM_THROW)}

NoFunctionMade ==
    /\ fout.outcome = "fail"
    /\ fout.spec = NoArray
    /\ fout.body = NoArray
    /\ fout.params = <<>>

StringsNeverMatter ==
    fout = Make_Paramlist_Managed(
               SelectSeq(fin.spec, LAMBDA v : ~ANY_BINSTR(v)), fin.opt_sym_last)

\* C17 as stated: Make_Function fails, with no function made, when spec or
\* body is no block, when the spec holds an unknown tag, or a word that is
\* neither bare nor a refinement inside a <local> run; Make_Paramlist_Managed
\* fails on an element that is no string, block or word and on a leading
\* block with anything but catch and throw; strings never make it fail.
C17_BadDefinitionFails ==
    /\ (fop = "Make_Function" /\ BadForFunction(fin.spec, fin.body)) =>
           NoFunctionMade
    /\ fop = "Make_Paramlist_Managed" =>
           /\ BadForParamlist(fin.spec) => fout.outcome = "fail"
           /\ StringsNeverMatter

\* C17 amended: the unknown tag and the word in a <local> run make
\* Make_Function fail when has_return is TRUE, and a set-word in a <local>
\* run does not; the rest as stated.
C17_BadDefinitionFailsForGenerators ==
    /\ (/\ fop = "Make_Function"
        /\ ~IS_BLOCK(fin.spec) \/ ~IS_BLOCK(fin.body)
           \/ (fin.has_return /\ BadForGenerator(fin.spec, fin.body))) =>
           NoFunctionMade
    /\ fop = "Make_Paramlist_Managed" =>
           /\ BadForParamlist(fin.spec) => fout.outcome = "fail"
           /\ StringsNeverMatter

\* C17 witness: a spec that fails for its leading block alone, and would
\* have made a list without it
C17_Witness ==
    /\ fop = "Make_Paramlist_Managed"
    /\ Len(fin.spec) = 3
    /\ fin.spec[1] = Blk(<<Word(SYM_CATCH), Word("other")>>)
    /\ fin.spec[2] = Word("a")
    /\ fin.spec[3] = Str("doc")
    /\ fout.outcome = "fail"
    /\ fout.error = "RE_BAD_FUNC_DEF"

\* A spec that declares return: itself and is well formed otherwise
DeclaresReturn(spec) ==
    /\ IS_BLOCK(spec)
    /\ Len(spec.items) > 0
    /\ ~IS_BLOCK(spec.items[1])
    /\ \A i \in 1 .. Len(spec.items) :
           spec.items[i] \in {SetWord(SYM_RETURN), SetWord("x"), Word("a"),
                              Refinement("r"), TypeBlock}
    /\ \A i, j \in 1 .. Len(spec.items) :
           (i < j /\ ANY_WORD(spec.items[i]) /\ ANY_WORD(spec.items[j])) =>
               spec.items[i].sym # spec.items[j].sym
    /\ \E i \in 1 .. Len(spec.items) : spec.items[i] = SetWord(SYM_RETURN)

\* C18: Make_Function with has_return TRUE and a spec that declares return:
\* as a set-word does not fail and adds no second return: the parameter list
\* has exactly one entry for return.
C18_DeclaredReturnKept ==
    (/\ fop = "Make_Function"
     /\ fin.has_return
     /\ IS_BLOCK(fin.body)
     /\ DeclaresReturn(fin.spec)) =>
        /\ fout.outcome = "made"
        /\ Cardinality({k \in 1 .. Len(fout.params) :
                           fout.params[k].sym = SYM_RETURN}) = 1

\* C19: Make_Function leaves the caller's spec and body arrays as they were,
\* and the spec and body of the function made are copies or the shared
\* empty / [return:] arrays, never the caller's.
C19_CallerArraysUntouched ==
    (fop = "Make_Function" /\ IS_BLOCK(fin.spec) /\ IS_BLOCK(fin.body)) =>
        /\ fout.callerSpec = fin.spec.items
        /\ fout.callerBody = fin.body.items
        /\ fout.outcome = "made" =>
               /\ fout.spec.id \in {"copy", "EMPTY_ARRAY", "ROOT_RETURN_BLOCK"}
               /\ fout.body.id \in {"copy", "EMPTY_ARRAY"}

\* C20: with has_return TRUE every bare word in a <local> run is a hidden
\* local of the function made, and every bare word outside such a run is a
\* normal parameter, wherever a <transparent> tag or a return word stands.
C20_LocalRunHides ==
    (fop = "Make_Function" /\ fin.has_return /\ fout.outcome = "made") =>
        \A i \in 1 .. Len(fin.spec.items) :
            IS_WORD(fin.spec.items[i]) =>
                /\ HasParam(fout.params, fin.spec.items[i].sym)
                /\ ParamOf(fout.params, fin.spec.items[i].sym).ext =
                       IF InLocalRun(fin.spec.items, i)
                       THEN {EXT_TYPESET_HIDDEN}
                       ELSE {EXT_TYPESET_EVALUATE}

(***************************************************************************)
(* Objects: field set through a path and through APPEND (t-object.c)       *)
(***************************************************************************)
MaxBlock == 3

\* A key of a frame's word list with its OPTS_HIDE and OPTS_LOCK bits
Key(sym, hide, lock) == [sym |-> sym, hide |-> hide, lock |-> lock]
VAL_PROTECTED(key) == key.lock
UNSET_VALUE == [kind |-> "unset"]
NoSetval == [kind |-> "no-setval"]

\* Index of the first key with the symbol, 0 when there is none: the entry
\* of the binding table that Collect_Object fills with the object's words
KeyIndex(keys, sym) ==
    IF \E i \in 1 .. Len(keys) : keys[i].sym = sym
    THEN CHOOSE i \in 1 .. Len(keys) :
             keys[i].sym = sym /\ \A j \in 1 .. i - 1 : keys[j].sym # sym
    ELSE 0

\* Find_Word_Index(frame, sym, always): whether a lookup that is not
\* "always" reports a hidden key is decided outside the files at hand
Find_Key_Index(keys, sym, always, seesHidden) ==
    LET n == KeyIndex(keys, sym)
    IN  IF n # 0 /\ ~always /\ keys[n].hide /\ ~seesHidden THEN 0 ELSE n

\* How a routine ended, and the object as it left it
Ended_Obj(outcome, error, o) == [outcome |-> outcome, error |-> error, object |-> o]

\* The path evaluator stores setval through pvs->value at the end of a set-path
Stored(o, n, setval, last) ==
    IF setval # NoSetval /\ last
    THEN Ended_Obj("PE_SET", "none", [o EXCEPT !.vals[n] = setval])
    ELSE Ended_Obj("PE_SET", "none", o)

\* A set-path that stores without looking at the lock
PD_ObjectUnlocked(o, select, setval, last, seesHidden) ==
    IF ~IS_WORD(select) THEN Ended_Obj("PE_BAD_SELECT", "none", o)
    ELSE LET n == Find_Key_Index(o.keys, select.sym, FALSE, seesHidden)
         IN  IF n = 0 THEN Ended_Obj("PE_BAD_SELECT", "none", o)
             ELSE Stored(o, n, setval, last)

PD_Object(o, select, setval, last, seesHidden) ==
    IF ~IS_WORD(select) THEN Ended_Obj("PE_BAD_SELECT", "none", o)
    ELSE LET n == Find_Key_Index(o.keys, select.sym, FALSE, seesHidden)
         IN  IF n = 0 THEN Ended_Obj("PE_BAD_SELECT", "none", o)
             ELSE IF setval # NoSetval /\ last /\ VAL_PROTECTED(o.keys[n])
                  THEN Ended_Obj("trap", "RE_LOCKED_WORD", o)
                  ELSE Stored(o, n, setval, last)

PD_Frame(o, select, setval, last) ==
    IF ~IS_WORD(select) THEN Ended_Obj("PE_BAD_SELECT", "none", o)
    ELSE LET n == KeyIndex(o.keys, select.sym)
         IN  IF n = 0 THEN Ended_Obj("PE_BAD_SELECT", "none", o)
             ELSE IF o.keys[n].hide THEN Ended_Obj("PE_BAD_SELECT", "none", o)
             ELSE IF VAL_PROTECTED(o.keys[n])
                  THEN Ended_Obj("trap", "RE_LOCKED_WORD", o)
                  ELSE Stored(o, n, setval, last)

\* Append_Frame(obj, 0, sym): a new key without flags, its value unset
Append_Frame(o, sym) ==
    [keys |-> Append(o.keys, Key(sym, FALSE, FALSE)),
     vals |-> Append(o.vals, UNSET_VALUE)]

\* First loop over the word/value block from position k: the words that are
\* not bound yet are collected and appended to the object
RECURSIVE CollectWords(_, _, _)
CollectWords(o, items, k) ==
    IF k > Len(items) THEN Ended_Obj("collected", "none", o)
    ELSE LET word == items[k]
         IN  IF ~(word.kind \in {"word", "set-word"})
             THEN Ended_Obj("trap", "RE_INVALID_ARG", o)
             ELSE IF word.sym = "self"
             THEN Ended_Obj("trap", "RE_SELF_PROTECTED", o)
             ELSE LET grown == IF KeyIndex(o.keys, word.sym) # 0 THEN o
                               ELSE Append_Frame(o, word.sym)
                  IN  IF k + 1 > Len(items)
                      THEN Ended_Obj("collected", "none", grown)
                      ELSE CollectWords(grown, items, k + 2)

\* The second loop without the test of the flags
RECURSIVE SetValuesUnchecked(_, _, _)
SetValuesUnchecked(o, items, k) ==
    IF k > Len(items) THEN Ended_Obj("done", "none", o)
    ELSE LET i == KeyIndex(o.keys, items[k].sym)
         IN  IF k + 1 > Len(items)
             THEN Ended_Obj("done", "none", [o EXCEPT !.vals[i] = NONE_VALUE])
             ELSE SetValuesUnchecked([o EXCEPT !.vals[i] = items[k + 1]], items, k + 2)

\* Second loop: each word's field gets the value after it, NONE at the end
RECURSIVE SetValues(_, _, _)
SetValues(o, items, k) ==
    IF k > Len(items) THEN Ended_Obj("done", "none", o)
    ELSE LET i == KeyIndex(o.keys, items[k].sym)
         IN  IF o.keys[i].hide \/ o.keys[i].lock
             THEN IF VAL_PROTECTED(o.keys[i])
                  THEN Ended_Obj("trap", "RE_LOCKED_WORD", o)
                  ELSE Ended_Obj("trap", "RE_HIDDEN", o)
             ELSE IF k + 1 > Len(items)
                  THEN Ended_Obj("done", "none", [o EXCEPT !.vals[i] = NONE_VALUE])
                  ELSE SetValues([o EXCEPT !.vals[i] = items[k + 1]], items, k + 2)

Append_Obj(o, arg) ==
    IF arg.kind \in {"word", "set-word", "get-word", "lit-word", "refinement"}
    THEN IF Find_Key_Index(o.keys, arg.sym, TRUE, FALSE) # 0
         THEN Ended_Obj("done", "none", o)
         ELSE IF arg.sym = "self"
              THEN Ended_Obj("trap", "RE_SELF_PROTECTED", o)
              ELSE Ended_Obj("done", "none", Append_Frame(o, arg.sym))
    ELSE IF ~IS_BLOCK(arg) THEN Ended_Obj("trap", "RE_INVALID_ARG", o)
    ELSE LET collected == CollectWords(o, arg.items, 1)
         IN  IF collected.outcome = "trap"
             \* the words are appended only after the whole block was examined
             THEN Ended_Obj("trap", collected.error, o)
             ELSE SetValues(collected.object, arg.items, 1)

\* The objects the model starts from: field a plain or protected, field h
\* plain, hidden, protected or both
Objects ==
    {[keys |-> <<Key("a", FALSE, la), Key("h", hh, lh)>>,
      vals |-> <<MkInteger(0), MkInteger(0)>>] : la, hh, lh \in BOOLEAN}

Selects == {Word("a"), Word("h"), Word("n"), MkInteger(1)}
Setvals == {NoSetval, MkInteger(1)}
AppendItems == {SetWord("a"), SetWord("h"), Word("n"), MkInteger(1)}
AppendArgs ==
    {Word("n"), Word("h"), Word("self"), MkInteger(1)}
    \cup {Blk(items) : items \in SeqsUpTo(AppendItems, MaxBlock)}

Call_PD_Object ==
    /\ oop = "idle"
    /\ \E select \in Selects, setval \in Setvals, last \in BOOLEAN,
          seesHidden \in BOOLEAN :
           LET r == PD_Object(object, select, setval, last, seesHidden)
           IN  /\ oin' = [select |-> select, setval |-> setval, last |-> last,
                          seesHidden |-> seesHidden, before |-> object]
               /\ oout' = [outcome |-> r.outcome, error |-> r.error]
               /\ object' = r.object
    /\ oop' = "PD_Object"
    /\ UNCHANGED <<trapVars, errVars, funcVars, invVars, gobVars>>

Call_PD_Frame ==
    /\ oop = "idle"
    /\ \E select \in Selects, setval \in Setvals, last \in BOOLEAN :
           LET r == PD_Frame(object, select, setval, last)
           IN  /\ oin' = [select |-> select, setval |-> setval, last |-> last,
                          before |-> object]
               /\ oout' = [outcome |-> r.outcome, error |-> r.error]
               /\ object' = r.object
    /\ oop' = "PD_Frame"
    /\ UNCHANGED <<trapVars, errVars, funcVars, invVars, gobVars>>

Call_Append_Obj ==
    /\ oop = "idle"
    /\ \E arg \in AppendArgs :
           LET r == Append_Obj(object, arg)
           IN  /\ oin' = [arg |-> arg, before |-> object]
               /\ oout' = [outcome |-> r.outcome, error |-> r.error]
               /\ object' = r.object
    /\ oop' = "Append_Obj"
    /\ UNCHANGED <<trapVars, errVars, funcVars, invVars, gobVars>>

\* The caller is done with the result; the object stays as it is
Return_Obj ==
    /\ oop # "idle"
    /\ oop' = "idle"
    /\ oin' = [select |-> "none"]
    /\ oout' = [outcome |-> "none"]
    /\ UNCHANGED object
    /\ UNCHANGED <<trapVars, errVars, funcVars, invVars, gobVars>>

InitObj ==
    /\ TrapIdle /\ ErrIdle /\ FuncIdle /\ InvIdle /\ GobIdle
    /\ object \in Objects
    /\ oop = "idle"
    /\ oin = [select |-> "none"]
    /\ oout = [outcome |-> "none"]

NextObj ==
    \/ Call_PD_Object
    \/ Call_PD_Frame
    \/ Call_Append_Obj
    \/ Return_Obj

SpecObj == InitObj /\ [][NextObj]_vars

(***************************************************************************)
(* Gobs: panes and parents (t-gob.c)                                       *)
(***************************************************************************)
MaxGobs == 2
MaxPane == 3
MaxGobArgs == 2
MaxGobOps == 3

Gobs == 1 .. MaxGobs
NOT_FOUND == -1
NoPane == [made |-> FALSE, gobs |-> <<>>]
Pane(gobs) == [made |-> TRUE, gobs |-> gobs]
NotGob == -2

\* GOB_LEN(gob)
GOB_LEN(s, gob) == Len(s.pane[gob].gobs)

\* Find_Gob(gob, target): index from 0, NOT_FOUND if none or no pane
Find_Gob(s, gob, sought) ==
    LET gobs == s.pane[gob].gobs
    IN  IF s.pane[gob].made /\ \E n \in 1 .. Len(gobs) : gobs[n] = sought
        THEN (CHOOSE n \in 1 .. Len(gobs) :
                  gobs[n] = sought /\ \A m \in 1 .. n - 1 : gobs[m] # sought) - 1
        ELSE NOT_FOUND

\* Remove_Series(pane, i, len), indexes from 0
Remove_Series(gobs, i, len) ==
    SubSeq(gobs, 1, i) \o SubSeq(gobs, i + len + 1, Len(gobs))

Detach_Gob(s, gob) ==
    LET par == s.parent[gob]
        i == IF par = NULL THEN NOT_FOUND ELSE Find_Gob(s, par, gob)
    IN  [parent |-> [s.parent EXCEPT ![gob] = NULL],
         pane |-> IF par # NULL /\ i # NOT_FOUND
                  THEN [s.pane EXCEPT ![par].gobs = Remove_Series(@, i, 1)]
                  ELSE s.pane]

\* First loop of Insert_Gobs from argument n on: every argument must be a
\* gob; one that has a parent is detached, and the index follows a gob
\* taken out of this pane before it
RECURSIVE VerifyGobs(_, _, _, _, _)
VerifyGobs(s, gob, args, n, index) ==
    IF n > Len(args) THEN [how |-> "verified", s |-> s, index |-> index]
    ELSE LET val == args[n]
         IN  IF val = NotGob THEN [how |-> "fail", s |-> s, index |-> index]
             ELSE IF s.parent[val] = NULL
                  THEN VerifyGobs(s, gob, args, n + 1, index)
             ELSE LET i == IF s.parent[val] = gob
                           THEN Find_Gob(s, gob, val) ELSE -1
                  IN  IF s.parent[val] = gob /\ i > 0 /\ i = index - 1
                      THEN [how |-> "no-op", s |-> s, index |-> index]
                      ELSE VerifyGobs(Detach_Gob(s, val), gob, args, n + 1,
                                      IF i >= 0 /\ index > i
                                      THEN index - 1 ELSE index)

\* Expand_Series(pane, index, count): room for count pointers at index (at
\* the tail when index is beyond it); the room holds what lay there
RECURSIVE Room(_, _)
Room(count, junk) == IF count = 0 THEN <<>> ELSE <<junk>> \o Room(count - 1, junk)

Expand_Series(gobs, index, count, junk) ==
    LET at == IF index > Len(gobs) THEN Len(gobs) ELSE index
    IN  SubSeq(gobs, 1, at) \o Room(count, junk)
            \o SubSeq(gobs, at + 1, Len(gobs))

\* *ptr = gob, with ptr counted from 0
StoreAt(gobs, ptr, gob) ==
    SubSeq(gobs, 1, ptr) \o <<gob>> \o SubSeq(gobs, ptr + 2, Len(gobs))

\* Second loop: the gobs are stored from ptr on (index from 0) and get
\* their parent; a gob that has a parent by now ends the loop with a fail
RECURSIVE FillGobs(_, _, _, _, _)
FillGobs(s, gob, args, n, ptr) ==
    IF n > Len(args) THEN [how |-> "done", s |-> s]
    ELSE LET val == args[n]
         IN  IF s.parent[val] # NULL THEN [how |-> "fail", s |-> s]
             ELSE FillGobs([parent |-> [s.parent EXCEPT ![val] = gob],
                            pane |-> [s.pane EXCEPT
                                          ![gob].gobs = StoreAt(@, ptr, val)]],
                           gob, args, n + 1, ptr + 1)

\* Insert_Gobs(gob, arg, index, len, change) with change false, as every
\* caller passes it
Insert_Gobs(s, gob, args, index, junk) ==
    LET v == VerifyGobs(s, gob, args, 1, index)
        count == Len(args)
    IN  IF v.how # "verified" THEN [how |-> v.how, s |-> v.s]
        ELSE IF ~v.s.pane[gob].made
             THEN FillGobs([v.s EXCEPT !.pane[gob] =
                                Pane(Room(count, junk))],
                           gob, args, 1, 0)
             ELSE LET grown == Expand_Series(v.s.pane[gob].gobs, v.index, count, junk)
                      at == IF v.index >= Len(grown) THEN Len(grown) - 1
                            ELSE v.index
                  IN  FillGobs([v.s EXCEPT !.pane[gob].gobs = grown],
                               gob, args, 1, at)

\* Remove_Gobs(gob, index, len)
Remove_Gobs(s, gob, index, len) ==
    LET gobs == s.pane[gob].gobs
        leaving == {gobs[k] : k \in index + 1 .. index + len} \ {NULL}
    IN  [parent |-> [g \in Gobs |-> IF g \in leaving THEN NULL ELSE s.parent[g]],
         pane |-> [s.pane EXCEPT ![gob].gobs = Remove_Series(@, index, len)]]

\* Set_GOB_Var(gob, 'pane, val): the pane is emptied, then filled from val
Set_GOB_Var_Pane(s, gob, val, junk) ==
    LET cleared == IF s.pane[gob].made
                   THEN [s EXCEPT !.pane[gob].gobs = <<>>] ELSE s
    IN  IF val.kind = "block" THEN Insert_Gobs(cleared, gob, val.items, 0, junk)
        ELSE IF val.kind = "gob" THEN Insert_Gobs(cleared, gob, <<val.gob>>, 0, junk)
        ELSE IF val.kind = "blank"
             THEN [how |-> "done", s |-> [cleared EXCEPT !.pane[gob] = NoPane]]
             ELSE [how |-> "false", s |-> cleared]

GobState == [parent |-> gparent, pane |-> gpane]
PaneTail(gob) == IF gpane[gob].made THEN Len(gpane[gob].gobs) ELSE 0

\* The blocks and single gobs handed to insert, append and pane:
GobBlocks == SeqsUpTo(Gobs \cup {NotGob}, MaxGobArgs)
Junk == Gobs \cup {NULL}

\* The state a gob action leaves, within the number of actions of the model
GobDone(op, r) ==
    /\ \A g \in Gobs : Len(r.s.pane[g].gobs) <= MaxPane
    /\ gparent' = r.s.parent
    /\ gpane' = r.s.pane
    /\ gop' = [op |-> op, how |-> r.how, n |-> gop.n + 1]
    /\ UNCHANGED <<trapVars, errVars, funcVars, objVars, invVars>>

\* INSERT of a gob or a block of gobs at the index of the gob value
Gob_Insert ==
    /\ gop.n < MaxGobOps
    /\ \E gob \in Gobs, args \in GobBlocks \ {<<>>}, junk \in Junk :
           \E index \in 0 .. PaneTail(gob) :
               GobDone("insert", Insert_Gobs(GobState, gob, args, index, junk))

\* APPEND: the index is the tail
Gob_Append ==
    /\ gop.n < MaxGobOps
    /\ \E gob \in Gobs, args \in GobBlocks \ {<<>>}, junk \in Junk :
           GobDone("append", Insert_Gobs(GobState, gob, args, PaneTail(gob), junk))

\* CHANGE: one gob, at an index inside an existing pane
Gob_Change ==
    /\ gop.n < MaxGobOps
    /\ \E gob \in Gobs, arg \in Gobs, junk \in Junk :
           /\ gpane[gob].made
           /\ \E index \in 0 .. PaneTail(gob) - 1 :
                  GobDone("change", Insert_Gobs(GobState, gob, <<arg>>, index, junk))

\* CLEAR from the index to the tail
Gob_Clear ==
    /\ gop.n < MaxGobOps
    /\ \E gob \in Gobs :
           \E index \in 0 .. PaneTail(gob) :
               GobDone("clear",
                       [how |-> "done",
                        s |-> IF PaneTail(gob) > index
                              THEN Remove_Gobs(GobState, gob, index, PaneTail(gob) - index)
                              ELSE GobState])

\* REMOVE, one gob or /part
Gob_Remove ==
    /\ gop.n < MaxGobOps
    /\ \E gob \in Gobs, part \in 0 .. MaxGobArgs :
           \E index \in 0 .. PaneTail(gob) :
               LET len == IF index + part > PaneTail(gob) THEN PaneTail(gob) - index ELSE part
               IN  GobDone("remove",
                           [how |-> "done",
                            s |-> IF index < PaneTail(gob) /\ len # 0
                                  THEN Remove_Gobs(GobState, gob, index, len)
                                  ELSE GobState])

\* TAKE, one gob or /part
Gob_Take ==
    /\ gop.n < MaxGobOps
    /\ \E gob \in Gobs, part \in 0 .. MaxGobArgs :
           \E index \in 0 .. PaneTail(gob) :
               LET len == IF index + part > PaneTail(gob) THEN PaneTail(gob) - index ELSE part
               IN  GobDone("take",
                           IF index >= PaneTail(gob)
                           THEN [how |-> "null", s |-> GobState]
                           ELSE [how |-> "done",
                                 s |-> Remove_Gobs(GobState, gob, index, len)])

PaneValues ==
    {Blk(items) : items \in GobBlocks}
    \cup {[kind |-> "gob", gob |-> g] : g \in Gobs}
    \cup {[kind |-> "blank"], MkInteger(1)}

\* gob/pane: val
Gob_Set_Pane ==
    /\ gop.n < MaxGobOps
    /\ \E gob \in Gobs, val \in PaneValues, junk \in Junk :
           GobDone("pane", Set_GOB_Var_Pane(GobState, gob, val, junk))

InitGob ==
    /\ TrapIdle /\ ErrIdle /\ FuncIdle /\ ObjIdle /\ InvIdle
    /\ gparent = [g \in Gobs |-> NULL]
    /\ gpane = [g \in Gobs |-> NoPane]
    /\ gop = [op |-> "none", how |-> "none", n |-> 0]

NextGob ==
    \/ Gob_Insert
    \/ Gob_Append
    \/ Gob_Change
    \/ Gob_Clear
    \/ Gob_Remove
    \/ Gob_Take
    \/ Gob_Set_Pane

SpecGob == InitGob /\ [][NextGob]_vars

(***************************************************************************)
(* Invocations of FUNCTION! and CLOSURE! values (c-function.c)             *)
(***************************************************************************)
MaxDepth == 3
MaxSeries == 9
MaxLocal == 1

\* One FUNCTION! and one CLOSURE!, each with a parameter list and a body
Funcs == {"f", "c"}
Series == 1 .. MaxSeries
Unbound == NULL
FuncKinds == [f |-> REB_FUNCTION, c |-> REB_CLOSURE]
FUNC_PARAMLIST(fn) == IF fn = "f" THEN 1 ELSE 3
FUNC_BODY(fn) == IF fn = "f" THEN 2 ELSE 4
SeriesMade == FUNC_BODY("c")

\* ROOT_RETURN_NATIVE with VAL_FUNC_RETURN_FROM set
ReturnNative(from) == [kind |-> "native", sym |-> SYM_RETURN, return_from |-> from]

\* struct Reb_Call: the function, its argument array, the arguments, and the
\* body array that is run
Reb_Call(fn, arglist, arg, body) ==
    [func |-> fn, arglist |-> arglist, arg |-> arg, body |-> body]

\* The arrays and the function values an invocation works on
Heap(fv, arr, n) == [archetype |-> fv, arrays |-> arr, allocs |-> n]
Ran(call, h) == [call |-> call, h |-> h]

\* c->arg[FUNC_NUM_PARAMS(c->func)] = RETURN native leaving to `from`
FillReturn(call, h, from) ==
    IF h.archetype[call.func].has_return
    THEN [call EXCEPT !.arg[Len(call.arg)] = ReturnNative(from)]
    ELSE call

\* Do_Function_Core up to the run of the body: the body is the function's
\* own, the return point is the function's parameter list
Do_Function_Core(call, h) ==
    Ran([FillReturn(call, h, FUNC_PARAMLIST(call.func))
             EXCEPT !.body = FUNC_BODY(call.func)],
        h)

\* Do_Closure_Core rebinding the closure's own body instead of a copy
Do_Closure_CoreInPlace(call, h) ==
    LET context == call.arglist
        body == FUNC_BODY(call.func)
    IN  Ran([FillReturn(call, h, context) EXCEPT !.body = body],
            Heap(h.archetype, [h.arrays EXCEPT ![body] = context], h.allocs))

\* Do_Closure_Core up to the run of the body: the argument array becomes the
\* context, the body is a deep copy rebound to it, the return point is the
\* context's varlist
Do_Closure_Core(call, h) ==
    LET context == call.arglist
        body == h.allocs + 1
    IN  Ran([FillReturn(call, h, context) EXCEPT !.body = body],
            Heap(h.archetype, [h.arrays EXCEPT ![body] = context], h.allocs + 1))

\* The invocation whose variables a word bound to `binding` reaches: the
\* context itself, or for a word bound to a function the newest call of it
Resolve(binding) ==
    IF \E j \in 1 .. Len(calls) : calls[j].arglist = binding
    THEN CHOOSE j \in 1 .. Len(calls) : calls[j].arglist = binding
    ELSE IF \E j \in 1 .. Len(calls) : FUNC_PARAMLIST(calls[j].func) = binding
    THEN CHOOSE j \in 1 .. Len(calls) :
             /\ FUNC_PARAMLIST(calls[j].func) = binding
             /\ \A k \in j + 1 .. Len(calls) :
                    FUNC_PARAMLIST(calls[k].func) # binding
    ELSE 0

\* A call of fn with argument v: the frame and its argument array are made,
\* then the dispatcher for the kind of function runs up to the body
Invoke(fn, v) ==
    LET arglist == allocs + 1
        arg == IF archetype[fn].has_return
               THEN <<MkInteger(v), UNSET_VALUE>> ELSE <<MkInteger(v)>>
        call == Reb_Call(fn, arglist, arg, Unbound)
        h == Heap(archetype, arrays, arglist)
        r == IF archetype[fn].kind = REB_CLOSURE
             THEN Do_Closure_Core(call, h) ELSE Do_Function_Core(call, h)
    IN  /\ calls' = Append(calls, r.call)
        /\ archetype' = r.h.archetype
        /\ arrays' = r.h.arrays
        /\ allocs' = r.h.allocs
        /\ ilast' = [op |-> "invoke", who |-> Len(calls) + 1]
        /\ UNCHANGED <<trapVars, errVars, funcVars, objVars, gobVars>>

Invoke_Function ==
    /\ Len(calls) < MaxDepth
    /\ allocs + 2 <= MaxSeries
    /\ \E v \in 0 .. MaxLocal : Invoke("f", v)

Invoke_Closure ==
    /\ Len(calls) < MaxDepth
    /\ allocs + 2 <= MaxSeries
    /\ \E v \in 0 .. MaxLocal : Invoke("c", v)

\* The body run for invocation i sets its first word to v
Set_Local ==
    /\ calls # <<>>
    /\ \E i \in 1 .. Len(calls), v \in 0 .. MaxLocal :
           LET j == Resolve(arrays[calls[i].body])
           IN  /\ calls' = IF j = 0 THEN calls
                           ELSE [calls EXCEPT ![j].arg[1] = MkInteger(v)]
               /\ ilast' = [op |-> "set", who |-> i]
    /\ UNCHANGED <<archetype, arrays, allocs>>
    /\ UNCHANGED <<trapVars, errVars, funcVars, objVars, gobVars>>

\* The body of the newest invocation has run to its end
End_Call ==
    /\ calls # <<>>
    /\ calls' = SubSeq(calls, 1, Len(calls) - 1)
    /\ ilast' = [op |-> "end", who |-> Len(calls)]
    /\ UNCHANGED <<archetype, arrays, allocs>>
    /\ UNCHANGED <<trapVars, errVars, funcVars, objVars, gobVars>>

\* Both function values made, each body bound to its own parameter list
InitInv ==
    /\ TrapIdle /\ ErrIdle /\ FuncIdle /\ ObjIdle /\ GobIdle
    /\ calls = <<>>
    /\ \E rf \in BOOLEAN, rc \in BOOLEAN :
           archetype = [f |-> [kind |-> REB_FUNCTION, has_return |-> rf],
                        c |-> [kind |-> REB_CLOSURE, has_return |-> rc]]
    /\ arrays = [a \in Series |->
                     IF a = FUNC_BODY("f") THEN FUNC_PARAMLIST("f")
                     ELSE IF a = FUNC_BODY("c") THEN FUNC_PARAMLIST("c")
                     ELSE Unbound]
    /\ allocs = SeriesMade
    /\ ilast = [op |-> "none", who |-> 0]

NextInv ==
    \/ Invoke_Function
    \/ Invoke_Closure
    \/ Set_Local
    \/ End_Call

SpecInv == InitInv /\ [][NextInv]_vars

\* Slot 0 of the list a function value points at is that very value
OwnValue(cell, lists) ==
    /\ cell.func \in ParamlistIds
    /\ lists[cell.func].slot0 = cell
    /\ lists[cell.func].slot0.func = cell.func

\* C21: after Make_Native, Make_Function or Clonify_Function, slot 0 of the
\* resulting function's parameter list holds that function's own value (its
\* kind, its flags, and a func pointer that is this very list); a clone's
\* slot 0 names the clone, and the original's list and slot 0 are unchanged.
C21_SlotZeroIsOwnValue ==
    /\ (fop = "Make_Native" /\ fout.outcome = "made") =>
           /\ OwnValue(fout.out, fout.lists)
           /\ fout.out.kind = fin.type
           /\ (EXT_FUNC_FRAMELESS \in fout.out.exts) = fin.frameless
    /\ fop = "Clonify_Function" =>
           /\ OwnValue(fin.value, fin.lists)
           /\ OwnValue(fout.out, fout.lists)
           /\ fout.out.kind = fin.value.kind
           /\ fout.out.exts = fin.value.exts
           /\ fout.lists[fin.value.func] = fin.lists[fin.value.func]
           /\ fin.value.kind = REB_FUNCTION =>
                  /\ fout.out.func # fin.value.func
                  /\ fout.lists[fout.out.func].params
                         = fin.lists[fin.value.func].params

C21_Witness ==
    /\ fop = "Clonify_Function"
    /\ fin.value.kind = REB_FUNCTION
    /\ EXT_FUNC_HAS_RETURN \in fin.value.exts
    /\ fout.out.func # fin.value.func
    /\ Len(fout.lists[fout.out.func].params) > 1

Visible(params) == SelectSeq(params, LAMBDA p : EXT_TYPESET_HIDDEN \notin p.ext)

\* C22: List_Func_Words returns exactly the parameters that are not hidden,
\* in parameter-list order, each as the word kind of its class, and never a
\* hidden pure local; the hidden ones stay in the parameter list, and
\* List_Func_Typesets returns one entry per parameter, hidden ones included.
C22_WordsAreVisibleParams ==
    fop = "List_Func_Words" =>
        LET shown == Visible(fin.params)
        IN  /\ Len(fout.words) = Len(shown)
            /\ \A k \in 1 .. Len(shown) :
                   /\ fout.words[k].sym = shown[k].sym
                   /\ \E i \in 1 .. Len(fin.spec) : fin.spec[i] = fout.words[k]
            /\ \A k \in 1 .. Len(fout.words), i \in 1 .. Len(fin.params) :
                   EXT_TYPESET_HIDDEN \in fin.params[i].ext
                       => fout.words[k].sym # fin.params[i].sym
            /\ Len(fout.typesets) = Len(fin.params)
            /\ \A i \in 1 .. Len(fin.params) :
                   fout.typesets[i].sym = fin.params[i].sym

C22_Witness ==
    /\ fop = "List_Func_Words"
    /\ Len(fout.words) = 2
    /\ Len(fout.typesets) = 3
    /\ \E i \in 1 .. 2 : EXT_TYPESET_HIDDEN \in fin.params[i].ext

\* The id word names an entry of the category (not its code or type keys)
IsEntryOf(category, sym) == \E k \in 1 .. Len(category.ids) : category.ids[k] = sym

\* C27: data with no code, a type word and an id word: when the type names a
\* catalog category and the id an entry of it, the code filled in is that
\* entry's catalog code, so that Find_Error_For_Code on the resulting code
\* gives back the type, id and message stored in the error; an id that is no
\* entry of the named category fails with invalid-error; a type naming no
\* category makes a user error with code RE_USER.
C27_TypeIdFillsCatalogCode ==
    (/\ eop = "Make_Error_Object_Throws"
     /\ ein.arg.kind \in {"object", "error", "block"}
     /\ ~ein.arg.throws
     /\ IS_NONE(ein.arg.obj.code)
     /\ IS_WORD(ein.arg.obj.type)
     /\ IS_WORD(ein.arg.obj.id)) =>
        LET c == CategoryIndex(ein.arg.obj.type.sym)
        IN  IF c = 0
            THEN eout.outcome = "made" /\ eout.obj.code = MkInteger(RE_USER)
            ELSE IF ~IsEntryOf(catalog[c], ein.arg.obj.id.sym)
                 THEN eout = Invalid
                 ELSE eout.outcome = "made" =>
                          LET found == Find_Error_For_Code(eout.obj.code.n)
                          IN  /\ found.found
                              /\ found.type_out.sym = eout.obj.type.sym
                              /\ found.id_out.sym = eout.obj.id.sym
                              /\ found.message = eout.obj.message

\* C28: both routines that jump to a recovery point, Fail_Core and
\* Trap_Stack_Overflow (which hands over the preallocated TASK_STACK_ERROR),
\* have at the moment the recovery code starts recorded the error in the
\* innermost saved state and left the thrown-argument slot with no value.
C28_JumpProtocol ==
    (pc = "jumped" /\ lastOp \in {"Fail_Core", "Trap_Stack_Overflow"}) =>
        /\ target = Saved_State
        /\ target = Innermost
        /\ st[Saved_State].error_frame = failed
        /\ lastOp = "Trap_Stack_Overflow" => failed = TASK_STACK_ERROR
        /\ TASK_THROWN_ARG = TRASH

Marked == {n \in NameCells : thrown[n]}

SlotHasOwner == pc # "abort" => (TASK_THROWN_ARG # TRASH => Marked # {})

\* Every step that marks a value puts its argument into the slot; every step
\* that clears a mark empties the slot, and a catch hands the slot's value
\* to out; in the debug build the slot is filled only when it was empty and
\* the name unmarked, and out is written only from a filled slot of a marked
\* name
SlotSteps ==
    /\ \A n \in NameCells :
           /\ (~thrown[n] /\ thrown'[n]) => TASK_THROWN_ARG' \in ThrowArgs
           /\ (thrown[n] /\ ~thrown'[n]) =>
                  /\ TASK_THROWN_ARG' = TRASH
                  /\ out' \in {TASK_THROWN_ARG, out}
    /\ out' # out => out' = TASK_THROWN_ARG /\ TASK_THROWN_ARG' = TRASH
    /\ (~ndebug /\ TASK_THROWN_ARG' # TRASH /\ TASK_THROWN_ARG' # TASK_THROWN_ARG) =>
           /\ TASK_THROWN_ARG = TRASH
           /\ \E n \in NameCells : ~thrown[n] /\ thrown'[n]
    /\ (~ndebug /\ out' # out) =>
           /\ TASK_THROWN_ARG # TRASH
           /\ \E n \in NameCells : thrown[n] /\ ~thrown'[n]

WordPositions(items) == {k \in 1 .. Len(items) : k % 2 = 1}

\* Every word position holds a word or set-word other than self
WordsValid(items) ==
    \A k \in WordPositions(items) :
        items[k].kind \in {"word", "set-word"} /\ items[k].sym # "self"

\* The flagged fields the block names, as positions in the block
Flagged(o, items) ==
    {k \in WordPositions(items) :
        LET i == KeyIndex(o.keys, items[k].sym)
        IN  i # 0 /\ (o.keys[i].hide \/ o.keys[i].lock)}

\* The key of the first flagged field the block names
FirstFlagged(o, items) ==
    LET k == CHOOSE k \in Flagged(o, items) : \A j \in Flagged(o, items) : k <= j
    IN  o.keys[KeyIndex(o.keys, items[k].sym)]

\* A set-path whose last selector names an existing field
SetsField(op) ==
    /\ oop = op
    /\ IS_WORD(oin.select)
    /\ oin.setval # NoSetval
    /\ oin.last
    /\ KeyIndex(oin.before.keys, oin.select.sym) # 0

PathKey == oin.before.keys[KeyIndex(oin.before.keys, oin.select.sym)]
PathSlot == KeyIndex(oin.before.keys, oin.select.sym)

\* The object's word lookup reported the key of the path (a hidden key is
\* reported or not, as the lookup has it)
Reported == ~PathKey.hide \/ oin.seesHidden

\* An append of a well-formed word/value block that names a flagged field
AppendsFlagged ==
    /\ oop = "Append_Obj"
    /\ IS_BLOCK(oin.arg)
    /\ WordsValid(oin.arg.items)
    /\ Flagged(oin.before, oin.arg.items) # {}

\* No field with a protected key has changed its value
ProtectedKept ==
    oop # "idle" =>
        \A n \in 1 .. Len(oin.before.keys) :
            oin.before.keys[n].lock => object.vals[n] = oin.before.vals[n]

LockedWord == oout.outcome = "trap" /\ oout.error = "RE_LOCKED_WORD"

\* C25 as stated: every attempt to set a field whose key is protected, by a
\* set-path on an object, a path on a frame or an append of a word/value
\* block, is rejected with the locked-word error and leaves the stored
\* value unchanged (for the object, as far as its word lookup reports the
\* key).
C25_ProtectedLockedWord ==
    /\ ProtectedKept
    /\ (SetsField("PD_Object") /\ PathKey.lock /\ Reported) => LockedWord
    /\ (SetsField("PD_Frame") /\ PathKey.lock) => LockedWord
    /\ (AppendsFlagged /\ FirstFlagged(oin.before, oin.arg.items).lock) => LockedWord

\* C25 (amended): no entry point stores into a field whose key is protected.
\* The attempt is rejected with the locked-word error when the key is not
\* hidden, and by an append also when it is hidden; a path to a key that is
\* protected and hidden is refused as a bad selector on a frame, and on an
\* object either that or the locked-word error.
C25_ProtectedNeverWritten ==
    /\ ProtectedKept
    /\ (SetsField("PD_Object") /\ PathKey.lock) =>
           IF PathKey.hide
           THEN LockedWord \/ oout.outcome = "PE_BAD_SELECT"
           ELSE LockedWord
    /\ (SetsField("PD_Frame") /\ PathKey.lock) =>
           IF PathKey.hide THEN oout.outcome = "PE_BAD_SELECT" ELSE LockedWord
    /\ (AppendsFlagged /\ FirstFlagged(oin.before, oin.arg.items).lock) => LockedWord

\* C25 witness: an append that wrote one field and was then refused at a
\* protected one
C25_Witness ==
    /\ AppendsFlagged
    /\ LockedWord
    /\ object # oin.before
    /\ \E n \in 1 .. Len(oin.before.keys) : oin.before.keys[n].lock

\* C26 as stated: a field whose key is hidden but not protected is written
\* by a set-path on the object (as far as its word lookup reports the key)
\* and by an append of a word/value block: the operation succeeds and the
\* new value is stored.
C26_HiddenStillWritable ==
    /\ (SetsField("PD_Object") /\ PathKey.hide /\ ~PathKey.lock /\ Reported) =>
           /\ oout.outcome = "PE_SET"
           /\ object.vals[PathSlot] = oin.setval
    /\ (AppendsFlagged /\ \A k \in Flagged(oin.before, oin.arg.items) :
            ~oin.before.keys[KeyIndex(oin.before.keys, oin.arg.items[k].sym)].lock) =>
           oout.outcome = "done"

\* C26 (amended): the hidden attribute forbids the write as well, with an
\* error of its own.  An append that names a hidden, unprotected field fails
\* with the hidden error, a path on a frame refuses the key as a bad
\* selector, and a set-path on an object either refuses it the same way or
\* stores the value; the hidden field is unchanged whenever the operation
\* is refused.  A field that is neither hidden nor protected is written by
\* all three.
C26_HiddenRejectedToo ==
    /\ (AppendsFlagged /\ ~FirstFlagged(oin.before, oin.arg.items).lock) =>
           /\ oout.outcome = "trap"
           /\ oout.error = "RE_HIDDEN"
    /\ (SetsField("PD_Frame") /\ PathKey.hide) =>
           /\ oout.outcome = "PE_BAD_SELECT"
           /\ object = oin.before
    /\ (SetsField("PD_Object") /\ PathKey.hide /\ ~PathKey.lock) =>
           \/ oout.outcome = "PE_BAD_SELECT" /\ object = oin.before
           \/ oout.outcome = "PE_SET" /\ object.vals[PathSlot] = oin.setval
    /\ (oop \in {"PD_Object", "PD_Frame"} /\ SetsField(oop)
            /\ ~PathKey.hide /\ ~PathKey.lock) =>
           /\ oout.outcome = "PE_SET"
           /\ object.vals[PathSlot] = oin.setval
    /\ (oop = "Append_Obj" /\ IS_BLOCK(oin.arg) /\ WordsValid(oin.arg.items)
            /\ Flagged(oin.before, oin.arg.items) = {}) =>
           /\ oout.outcome = "done"
           /\ \A k \in WordPositions(oin.arg.items) :
                  \E n \in 1 .. Len(object.keys) :
                      /\ object.keys[n].sym = oin.arg.items[k].sym
                      /\ object.vals[n] \in
                             {NONE_VALUE} \cup
                             {oin.arg.items[j] : j \in 1 .. Len(oin.arg.items)}

\* C26 witness: an append refused at a field that is hidden and not
\* protected, after it had already written another field
C26_Witness ==
    /\ AppendsFlagged
    /\ oout.error = "RE_HIDDEN"
    /\ object # oin.before
    /\ ~FirstFlagged(oin.before, oin.arg.items).lock

(***************************************************************************)
(* Properties of panes and parents (checked under SpecGob).                *)
(***************************************************************************)
\* The places of gob g in the pane of gob p
PlacesIn(p, g) == {k \in 1 .. Len(gpane[p].gobs) : gpane[p].gobs[k] = g}

\* C30: after any sequence of insert, append, change, remove, clear, take
\* and pane assignments, a gob g is an element of the pane of gob p exactly
\* when the parent of g is p, and it occurs in that pane at most once.
C30_PaneMatchesParent ==
    \A g \in Gobs, p \in Gobs :
        /\ (PlacesIn(p, g) # {}) <=> (gparent[g] = p)
        /\ Cardinality(PlacesIn(p, g)) <= 1

(***************************************************************************)
(* Properties of invocations (checked under SpecInv).                      *)
(***************************************************************************)
ClosureCalls == {i \in 1 .. Len(calls) : archetype[calls[i].func].kind = REB_CLOSURE}

\* Each active closure invocation runs a body of its own, not the
\* archetype's, bound to its own argument array
OwnContextAndBody ==
    /\ \A i \in ClosureCalls :
           /\ arrays[calls[i].body] = calls[i].arglist
           /\ calls[i].body # FUNC_BODY(calls[i].func)
    /\ \A i \in ClosureCalls, j \in ClosureCalls :
           i # j => /\ calls[i].arglist # calls[j].arglist
                    /\ calls[i].body # calls[j].body

\* A write made by the body of a closure invocation leaves the locals of
\* every other active invocation as they were
WritesStayLocal ==
    (ilast'.op = "set" /\ ilast'.who \in ClosureCalls) =>
        \A j \in 1 .. Len(calls) :
            j # ilast'.who => calls'[j].arg[1] = calls[j].arg[1]

\* No step changes what the words of a function value's body are bound to
ArchetypeKept == \A fn \in Funcs : arrays'[FUNC_BODY(fn)] = arrays[FUNC_BODY(fn)]

\* C23: two invocations of the same closure that are active at the same time
\* each have their own context (argument varlist) and their own deep copy of
\* the body rebound to that context, so a write to a local in one never
\* changes the value seen by the other, and no invocation changes the
\* closure's archetype body.
C23_ClosureIsolation ==
    /\ []OwnContextAndBody
    /\ [][WritesStayLocal /\ ArchetypeKept]_vars

\* Two nested invocations of the closure, the inner one has just written its
\* local, and the two locals differ
C23_Witness ==
    /\ Len(calls) >= 2
    /\ {1, 2} \subseteq ClosureCalls
    /\ ilast = [op |-> "set", who |-> 2]
    /\ calls[1].arg[1] # calls[2].arg[1]

HasReturn(i) == archetype[calls[i].func].has_return
ReturnSlot(i) == calls[i].arg[Len(calls[i].arg)]

\* C24: before the body of an invocation of a has-definitional-return
\* function runs, its last argument slot holds the return native, and among
\* the invocations active at the same time (recursive invocations of the
\* same FUNCTION! or CLOSURE! included) no two carry the same return-point
\* identity.
C24_ReturnPointPerInvocation ==
    \A i \in 1 .. Len(calls) :
        HasReturn(i) =>
            /\ ReturnSlot(i).kind = "native"
            /\ ReturnSlot(i).sym = SYM_RETURN
            /\ \A j \in 1 .. Len(calls) :
                   (j # i /\ HasReturn(j)) =>
                       ReturnSlot(j).return_from # ReturnSlot(i).return_from

====
